---------------------------- MODULE Spec2Model ----------------------------
(***************************************************************************)
(* Grizzly mapper: the mapping model, the code generator (generateCode),   *)
(* the template parser (parseTemplate), the change diff                    *)
(* (calculateChanges) and the editor state machine of GrizzlyMapper, as    *)
(* written in src/src/GrizzlyMapper.jsx lines 350-1605.                    *)
(*                                                                         *)
(* Text is modelled character by character: a JavaScript string is a       *)
(* sequence of one-character strings, "" is <<>>.  The values undefined    *)
(* and null are the one-element sequences Undefined and Null, whose        *)
(* element is no character.  An object is a record holding exactly the     *)
(* keys the code gave it; a key that is absent reads as undefined.         *)
(***************************************************************************)
EXTENDS Integers, Sequences, FiniteSets, TLC

(***************************************************************************)
(* The characters of a string literal of the source.                       *)
(***************************************************************************)
Str(s) == [i \in 1..Len(s) |-> SubSeq(s, i, i)]

Undefined == <<"undefined">>
Null == <<"null">>
True == <<"true">>
False == <<"false">>

\* JavaScript truthiness of a string-or-null-or-undefined value
Truthy(v) == v # <<>> /\ v # Undefined /\ v # Null

\* v || d
OrElse(v, d) == IF Truthy(v) THEN v ELSE d

\* `${v}` inside a template literal
ToStr(v) == IF v = Undefined THEN Str("undefined") ELSE IF v = Null THEN Str("null") ELSE v

\* m.f for an object m: undefined when the key is absent
Get(m, f) == IF f \in DOMAIN m THEN m[f] ELSE Undefined

\* { ...m, ...u } (object spread: the keys of u override those of m)
Spread(m, u) == [f \in (DOMAIN m) \cup (DOMAIN u) |-> IF f \in DOMAIN u THEN u[f] ELSE m[f]]

Min(S) == CHOOSE x \in S : \A y \in S : x <= y
Max(S) == CHOOSE x \in S : \A y \in S : x >= y

\* of the pairs <<position, match>> of all, those at the leftmost and at the rightmost position
Leftmost(all) == {x \in all : \A y \in all : x[1] <= y[1]}
Rightmost(all) == {x \in all : \A y \in all : x[1] >= y[1]}

\* \w of a JavaScript regular expression
WordChars ==
    {"a","b","c","d","e","f","g","h","i","j","k","l","m","n","o","p","q","r","s","t","u","v","w","x","y","z",
     "A","B","C","D","E","F","G","H","I","J","K","L","M","N","O","P","Q","R","S","T","U","V","W","X","Y","Z",
     "0","1","2","3","4","5","6","7","8","9","_"}
IsWord(c) == c \in WordChars

\* \s of a JavaScript regular expression, and the characters String.trim removes
SpaceChars == {" ", "\t", "\n", "\r", "\f"}
IsSpace(c) == c \in SpaceChars

\* s.substring(i-1) (1-based index i)
From(s, i) == SubSeq(s, i, Len(s))

\* s has p at position i
HasAt(s, i, p) == i >= 1 /\ i + Len(p) - 1 <= Len(s) /\ \A k \in 1..Len(p) : s[i + k - 1] = p[k]

\* s.startsWith(p)
StartsWith(s, p) == HasAt(s, 1, p)

\* s.includes(c) for a one-character c
Includes(s, c) == \E k \in 1..Len(s) : s[k] = c

RECURSIVE RunEndNot(_, _, _)
\* first index j >= i with s[j] in stop, or Len(s)+1: the end of a greedy run of a negated class
RunEndNot(s, i, stop) ==
    IF i > Len(s) THEN i ELSE IF s[i] \in stop THEN i ELSE RunEndNot(s, i + 1, stop)

RECURSIVE RunEnd(_, _, _)
\* first index j >= i with s[j] not in class, or Len(s)+1: the end of a greedy run of a class
RunEnd(s, i, class) ==
    IF i > Len(s) THEN i ELSE IF s[i] \notin class THEN i ELSE RunEnd(s, i + 1, class)

\* line.trim()
Trim(s) ==
    LET keep == {k \in 1..Len(s) : ~IsSpace(s[k])}
    IN  IF keep = {} THEN <<>> ELSE SubSeq(s, Min(keep), Max(keep))

RECURSIVE SplitFrom(_, _, _)
\* the pieces of s from position i on, cut at each c
SplitFrom(s, i, c) ==
    LET e == RunEndNot(s, i, {c})
    IN  <<SubSeq(s, i, e - 1)>> \o (IF e > Len(s) THEN <<>> ELSE SplitFrom(s, e + 1, c))

\* s.split(c) for a one-character separator c
Split(s, c) == SplitFrom(s, 1, c)

RECURSIVE Join(_, _)
\* parts.join(sep)
Join(parts, sep) ==
    IF Len(parts) = 0 THEN <<>>
    ELSE IF Len(parts) = 1 THEN parts[1]
    ELSE parts[1] \o sep \o Join(Tail(parts), sep)

RECURSIVE Concat(_)
\* the concatenation of a sequence of sequences
Concat(ss) == IF ss = <<>> THEN <<>> ELSE Head(ss) \o Concat(Tail(ss))

(***************************************************************************)
(* Numbers in text                                                         *)
(***************************************************************************)
DigitChars == <<"0", "1", "2", "3", "4", "5", "6", "7", "8", "9">>

RECURSIVE ToDigits(_)
\* `${n}` for a natural number n
ToDigits(n) ==
    IF n < 10 THEN <<DigitChars[n + 1]>>
    ELSE ToDigits(n \div 10) \o <<DigitChars[(n % 10) + 1]>>

(***************************************************************************)
(* Arrays.  An index that was never assigned is a hole (Hole): forEach,    *)
(* map, filter, some and find skip it.  Copying an array by spread turns   *)
(* each hole into the element undefined (UndefinedElement), which they     *)
(* visit.                                                                  *)
(***************************************************************************)
Hole == [hole |-> True]
UndefinedElement == [undefinedElement |-> True]
IsHole(m) == "hole" \in DOMAIN m
IsUndefinedElement(m) == "undefinedElement" \in DOMAIN m

\* [...a]
ArrayCopy(a) == [i \in 1..Len(a) |-> IF IsHole(a[i]) THEN UndefinedElement ELSE a[i]]

\* a[idx] = v for a 0-based idx, which may lie past the end of a
ArraySet(a, idx, v) ==
    [i \in 1..(IF idx + 1 > Len(a) THEN idx + 1 ELSE Len(a)) |->
        IF i = idx + 1 THEN v ELSE IF i <= Len(a) THEN a[i] ELSE Hole]

\* a.filter((_, i) => i !== idx) for a 0-based idx
RECURSIVE FilterOut(_, _)
FilterOut(a, idx) ==
    IF a = <<>> THEN <<>>
    ELSE (IF idx = 0 \/ IsHole(Head(a)) THEN <<>> ELSE <<Head(a)>>) \o FilterOut(Tail(a), idx - 1)

\* an arrow function that reads m.type, m.transformation, ... throws a TypeError on undefined
ReadsThrow(mods) ==
    \E i \in 1..Len(mods) : \E j \in 1..Len(mods[i].mappings) : IsUndefinedElement(mods[i].mappings[j])

(***************************************************************************)
(* TRANSFORMATION_PLUGINS: the generate function of each kind.             *)
(***************************************************************************)
GenDirect(m) ==
    LET src == OrElse(Get(m, "source"), Str("source"))
        code == Str("INPUT.") \o ToStr(src)
        t == Get(m, "transform")
    IN  IF t = Str("upper") THEN code \o Str(".upper()")
        ELSE IF t = Str("lower") THEN code \o Str(".lower()")
        ELSE IF t = Str("capitalize") THEN code \o Str(".capitalize()")
        ELSE IF Truthy(t) THEN t \o Str("(") \o code \o Str(")")
        ELSE code

GenConditional(m) ==
    LET field == OrElse(Get(m, "condField"), Str("field"))
        op == OrElse(Get(m, "condOp"), Str("=="))
        val == OrElse(Get(m, "condValue"), Str("value"))
        then == OrElse(Get(m, "thenValue"), Str("value1"))
        els == OrElse(Get(m, "elseValue"), Str("value2"))
        thenCode == IF Includes(then, ".") THEN Str("INPUT.") \o then ELSE Str("\"") \o then \o Str("\"")
        elseCode == IF Includes(els, ".") THEN Str("INPUT.") \o els ELSE Str("\"") \o els \o Str("\"")
    IN  thenCode \o Str(" if INPUT.") \o field \o Str(" ") \o op \o Str(" ") \o Str("\"") \o val
            \o Str("\" else ") \o elseCode

GenForLoop(m) ==
    Str("for ") \o OrElse(Get(m, "loopVar"), Str("item")) \o Str(" in ")
        \o OrElse(Get(m, "iterable"), Str("items")) \o Str(":")

GenIfBlock(m) ==
    IF Get(m, "ifType") = Str("else") THEN Str("else:")
    ELSE IF Get(m, "ifType") = Str("elif")
         THEN Str("elif ") \o OrElse(Get(m, "condition"), Str("condition")) \o Str(":")
         ELSE Str("if ") \o OrElse(Get(m, "condition"), Str("condition")) \o Str(":")

GenDatetimeParse(m) ==
    OrElse(Get(m, "varName"), Str("date")) \o Str(" = parseDate(")
        \o OrElse(Get(m, "source"), Str("INPUT.date")) \o Str(", \"")
        \o OrElse(Get(m, "format"), Str("yyyyMMdd")) \o Str("\")")

GenDatetimeFormat(m) ==
    Str("formatDate(") \o OrElse(Get(m, "dateVar"), Str("date")) \o Str(", \"")
        \o OrElse(Get(m, "format"), Str("yyyy-MM-dd")) \o Str("\")")

GenDatetimeAdd(m) ==
    OrElse(Get(m, "varName"), Str("newDate")) \o Str(" = ")
        \o OrElse(Get(m, "operation"), Str("addDays")) \o Str("(")
        \o OrElse(Get(m, "source"), Str("date")) \o Str(", ")
        \o OrElse(Get(m, "amount"), Str("1")) \o Str(")")

GenDecimal(m) ==
    LET op == Get(m, "decimalOp")
        bin(sign) == OrElse(Get(m, "resultVar"), Str("result")) \o Str(" = ")
                        \o OrElse(Get(m, "value1"), Str("val1")) \o sign
                        \o OrElse(Get(m, "value2"), Str("val2"))
    IN  IF op = Str("create")
        THEN OrElse(Get(m, "varName"), Str("amount")) \o Str(" = Decimal(")
                \o OrElse(Get(m, "source"), Str("\"0\"")) \o Str(")")
        ELSE IF op = Str("add") THEN bin(Str(" + "))
        ELSE IF op = Str("subtract") THEN bin(Str(" - "))
        ELSE IF op = Str("multiply") THEN bin(Str(" * "))
        ELSE IF op = Str("divide") THEN bin(Str(" / "))
        ELSE IF op = Str("round")
        THEN Str("round(") \o OrElse(Get(m, "source"), Str("amount")) \o Str(", ")
                \o OrElse(Get(m, "decimals"), Str("2")) \o Str(")")
        ELSE Str("Decimal(\"0\")")

GenRegex(m) ==
    LET pattern == OrElse(Get(m, "pattern"), Str("pattern"))
        source == OrElse(Get(m, "source"), Str("INPUT.text"))
        op == Get(m, "regexOp")
        call(fn) == fn \o pattern \o Str("\", ") \o source \o Str(")")
    IN  IF op = Str("match") THEN call(Str("re.match(r\""))
        ELSE IF op = Str("search") THEN call(Str("re.search(r\""))
        ELSE IF op = Str("findall") THEN call(Str("re.findall(r\""))
        ELSE IF op = Str("replace")
        THEN Str("re.sub(r\"") \o pattern \o Str("\", \"") \o OrElse(Get(m, "replacement"), <<>>)
                \o Str("\", ") \o source \o Str(")")
        ELSE IF op = Str("split") THEN call(Str("re.split(r\""))
        ELSE call(Str("re.match(r\""))

\* the keys of TRANSFORMATION_PLUGINS
PluginIds ==
    {Str("direct"), Str("conditional"), Str("for_loop"), Str("if_block"), Str("break"),
     Str("continue"), Str("datetime_parse"), Str("datetime_format"), Str("datetime_add"),
     Str("decimal"), Str("regex")}

\* TRANSFORMATION_PLUGINS[m.transformation] is defined
HasPlugin(m) == Get(m, "transformation") \in PluginIds

\* TRANSFORMATION_PLUGINS[m.transformation].generate(m)
PluginGenerate(m) ==
    LET k == Get(m, "transformation")
    IN  IF k = Str("direct") THEN GenDirect(m)
        ELSE IF k = Str("conditional") THEN GenConditional(m)
        ELSE IF k = Str("for_loop") THEN GenForLoop(m)
        ELSE IF k = Str("if_block") THEN GenIfBlock(m)
        ELSE IF k = Str("break") THEN Str("break")
        ELSE IF k = Str("continue") THEN Str("continue")
        ELSE IF k = Str("datetime_parse") THEN GenDatetimeParse(m)
        ELSE IF k = Str("datetime_format") THEN GenDatetimeFormat(m)
        ELSE IF k = Str("datetime_add") THEN GenDatetimeAdd(m)
        ELSE IF k = Str("decimal") THEN GenDecimal(m)
        ELSE GenRegex(m)

(***************************************************************************)
(* generateCode                                                            *)
(***************************************************************************)
\* AssignTarget with the dotted target as one key
AssignTargetFlat(target) == Str("    OUTPUT[\"") \o target \o Str("\"] = ")

\* the left-hand side and " = " of an assignment to the dotted target
AssignTarget(target) ==
    LET targetPath == Split(target, ".")
    IN  IF Len(targetPath) = 1
        THEN Str("    OUTPUT[\"") \o targetPath[1] \o Str("\"] = ")
        ELSE Str("    OUTPUT")
                \o Concat([i \in 1..Len(targetPath) |-> Str("[\"") \o targetPath[i] \o Str("\"]")])
                \o Str(" = ")

\* FieldLines without its guard `if (!Plugin || !m.target) return;`
FieldLinesUnguarded(m) == << AssignTarget(Get(m, "target")) \o PluginGenerate(m) >>

\* the lines a field mapping pushes: none without a plugin or a target
FieldLines(m) ==
    IF ~HasPlugin(m) \/ ~Truthy(Get(m, "target")) THEN <<>>
    ELSE << AssignTarget(Get(m, "target")) \o PluginGenerate(m) >>

\* CallLines with the mapping's identifier in the comment line
CallLinesWithId(m) ==
    << Str("    # Call ") \o ToStr(Get(m, "moduleName")) \o Str(" module") \o ToStr(Get(m, "id")),
       Str("    map_") \o ToStr(Get(m, "moduleName")) \o Str("(INPUT, OUTPUT)") >>

\* the two lines of a module call
CallLines(m) ==
    << Str("    # Call ") \o ToStr(Get(m, "moduleName")) \o Str(" module"),
       Str("    map_") \o ToStr(Get(m, "moduleName")) \o Str("(INPUT, OUTPUT)") >>

\* the lines one mapping of a helper module pushes
HelperMappingLines(m) ==
    IF Get(m, "type") = Str("module_call") THEN CallLines(m) ELSE FieldLines(m)

\* the lines one mapping of the main module pushes
MainMappingLines(m) ==
    IF Get(m, "type") = Str("module_call") THEN CallLines(m) \o << Str("    ") >> ELSE FieldLines(m)

\* module.mappings.forEach(...) of a helper module: list order, holes skipped
HelperBodyLines(mappings) ==
    Concat([i \in 1..Len(mappings) |->
               IF IsHole(mappings[i]) THEN <<>> ELSE HelperMappingLines(mappings[i])])

\* MainBodyLines keeping, of the mappings with one target, the last only
MainBodyLinesLastWins(mappings) ==
    Concat([i \in 1..Len(mappings) |->
               IF \/ IsHole(mappings[i])
                  \/ \E j \in (i + 1)..Len(mappings) :
                        /\ ~IsHole(mappings[j])
                        /\ Get(mappings[j], "target") = Get(mappings[i], "target")
               THEN <<>> ELSE MainMappingLines(mappings[i])])

\* mainModule.mappings.forEach(...): list order, holes skipped
MainBodyLines(mappings) ==
    Concat([i \in 1..Len(mappings) |->
               IF IsHole(mappings[i]) THEN <<>> ELSE MainMappingLines(mappings[i])])

\* STEP 1 for one module: nothing for "main" or a module without mappings
HelperModuleLines(module) ==
    IF module.name = Str("main") \/ Len(module.mappings) = 0 THEN <<>>
    ELSE << Str("def map_") \o module.name \o Str("(INPUT, OUTPUT):"),
            Str("    \"\"\"") \o module.name \o Str(" mappings\"\"\"") >>
         \o HelperBodyLines(module.mappings)
         \o << <<>> >>

\* STEP 2: the first module named "main", if there is one
MainModuleLines(mods) ==
    LET mains == {i \in 1..Len(mods) : mods[i].name = Str("main")}
    IN  IF mains = {} THEN <<>>
        ELSE << Str("def transform(INPUT):"), Str("    \"\"\"Main transformation\"\"\""),
                Str("    OUTPUT = {}"), Str("    ") >>
             \o MainBodyLines(mods[Min(mains)].mappings)
             \o << Str("    "), Str("    return OUTPUT") >>

\* modules.some(m => m.mappings.some(map => map.transformation === 'regex'))
HasRegex(mods) ==
    \E i \in 1..Len(mods) : \E j \in 1..Len(mods[i].mappings) :
        ~IsHole(mods[i].mappings[j]) /\ Get(mods[i].mappings[j], "transformation") = Str("regex")

\* GenerateLines with STEP 2 (the main module) ahead of STEP 1 (the helper modules)
GenerateLinesMainFirst(mods) ==
    << Str("#!/usr/bin/env python3"), Str("# GRIZZLY_TEMPLATE_V1"), Str("\"\"\""),
       Str("Generated by Grizzly"), Str("\"\"\""), <<>> >>
    \o (IF HasRegex(mods) THEN << Str("import re"), <<>> >> ELSE <<>>)
    \o MainModuleLines(mods)
    \o Concat([i \in 1..Len(mods) |-> HelperModuleLines(mods[i])])

\* the array `lines` of generateCode
GenerateLines(mods) ==
    << Str("#!/usr/bin/env python3"), Str("# GRIZZLY_TEMPLATE_V1"), Str("\"\"\""),
       Str("Generated by Grizzly"), Str("\"\"\""), <<>> >>
    \o (IF HasRegex(mods) THEN << Str("import re"), <<>> >> ELSE <<>>)
    \o Concat([i \in 1..Len(mods) |-> HelperModuleLines(mods[i])])
    \o MainModuleLines(mods)

\* generateCode(): lines.join("\n")
GenerateCode(mods) == Join(GenerateLines(mods), Str("\n"))

(***************************************************************************)
(* parseTemplate.  Each regular expression of the parser is an operator    *)
(* that returns the set of its matches (empty: no match), or applies the   *)
(* match; greedy and lazy quantifiers pick the match the JavaScript engine *)
(* picks.                                                                  *)
(***************************************************************************)
\* null-or-value results: None is null, Some(v) a value
None == <<>>
Some(v) == <<v>>

\* uid(): `m_${Date.now()}_${random}`, a token that differs from call to call; Uid(u) is
\* the token of the u-th call
Uid(u) == <<"m", "_">> \o ToDigits(u)

\* /^def map_(\w+)\(INPUT, OUTPUT\):/ : the captured names
ModuleDefMatch(t) ==
    LET j == RunEnd(t, 9, WordChars)
    IN  IF StartsWith(t, Str("def map_")) /\ j > 9 /\ HasAt(t, j, Str("(INPUT, OUTPUT):"))
        THEN {SubSeq(t, 9, j - 1)} ELSE {}

\* /^def (transform|map_\w+)\(INPUT, OUTPUT\):/
DefExempt(t) ==
    \/ StartsWith(t, Str("def transform") \o Str("(INPUT, OUTPUT):"))
    \/ ModuleDefMatch(t) # {}

\* /^map_(\w+)\(INPUT, OUTPUT\)/ : the captured names
ModuleCallMatch(t) ==
    LET j == RunEnd(t, 5, WordChars)
    IN  IF StartsWith(t, Str("map_")) /\ j > 5 /\ HasAt(t, j, Str("(INPUT, OUTPUT)"))
        THEN {SubSeq(t, 5, j - 1)} ELSE {}

\* OUTPUT\["([^"]+)"\]\s*=\s* tried at position p: <<target, index after the match>>
TargetAssignAt(t, p) ==
    LET a == p + 8
        b == RunEndNot(t, a, {"\""})
        c == RunEnd(t, b + 2, SpaceChars)
        d == RunEnd(t, c + 1, SpaceChars)
    IN  IF HasAt(t, p, Str("OUTPUT") \o Str("[\"")) /\ b > a /\ HasAt(t, b, Str("\"]"))
           /\ HasAt(t, c, Str("="))
        THEN {<<SubSeq(t, a, b - 1), d>>} ELSE {}

\* (?:\.(\w+)\(\))? at position f: <<captured transform or Null, index after it>>
TransformAt(t, f) ==
    LET g == RunEnd(t, f + 1, WordChars)
    IN  IF HasAt(t, f, Str(".")) /\ g > f + 1 /\ HasAt(t, g, Str("()"))
        THEN <<SubSeq(t, f + 1, g - 1), g + 2>> ELSE <<Null, f>>

\* the single-level pattern without INPUT\. before the source:
\* /OUTPUT\["([^\"]+)"\]\s*=\s*([^\s.]+)(?:\.(\w+)\(\))?/ tried at position p
SimpleMatchAtAnySource(t, p) ==
    {[target |-> ta[1],
      source |-> SubSeq(t, ta[2], RunEndNot(t, ta[2], SpaceChars \cup {"."}) - 1),
      transform |-> TransformAt(t, RunEndNot(t, ta[2], SpaceChars \cup {"."}))[1]] :
        ta \in {x \in TargetAssignAt(t, p) : RunEndNot(t, x[2], SpaceChars \cup {"."}) > x[2]}}

\* /OUTPUT\["([^\"]+)"\]\s*=\s*INPUT\.([^\s.]+)(?:\.(\w+)\(\))?/ tried at position p
SimpleMatchAt(t, p) ==
    {[target |-> ta[1],
      source |-> SubSeq(t, ta[2] + 6, RunEndNot(t, ta[2] + 6, SpaceChars \cup {"."}) - 1),
      transform |-> TransformAt(t, RunEndNot(t, ta[2] + 6, SpaceChars \cup {"."}))[1]] :
        ta \in {x \in TargetAssignAt(t, p) :
                    /\ HasAt(t, x[2], Str("INPUT."))
                    /\ RunEndNot(t, x[2] + 6, SpaceChars \cup {"."}) > x[2] + 6}}

\* the unanchored search: the match at the leftmost position that has one
SimpleMatch(t) ==
    {x[2] : x \in Leftmost(UNION {{<<p, sm>> : sm \in SimpleMatchAt(t, p)} : p \in 1..Len(t)})}

RECURSIVE BracketsEnd(_, _)
\* (\["[^"]+"\])* from position i, greedy: the index after the last group
BracketsEnd(t, i) ==
    LET b == RunEndNot(t, i + 2, {"\""})
    IN  IF HasAt(t, i, Str("[\"")) /\ b > i + 2 /\ HasAt(t, b, Str("\"]"))
        THEN BracketsEnd(t, b + 2) ELSE i

\* /OUTPUT(\["[^"]+"\])+\s*=\s*INPUT\.([\w.]+?)(?:\.(\w+)\(\))?$/ tried at position p:
\* the lazy source takes the shortest run that lets the rest reach the end of the line
NestedMatchAt(t, p) ==
    {[source |-> SubSeq(t, x[2], x[1] - 1), transform |-> TransformAt(t, x[1])[1]] :
        x \in UNION {Leftmost({<<f, e>> : f \in {g \in (e + 1)..RunEnd(t, e, WordChars \cup {"."}) :
                                                   \/ g = Len(t) + 1
                                                   \/ TransformAt(t, g)[2] = Len(t) + 1}}) :
                     e \in {d + 6 :
                            d \in {y \in {RunEnd(t, c + 1, SpaceChars) :
                                            c \in {z \in {RunEnd(t, k, SpaceChars) :
                                                            k \in {b \in {BracketsEnd(t, p + 6)} :
                                                                     /\ HasAt(t, p, Str("OUTPUT"))
                                                                     /\ b > p + 6}} :
                                                      HasAt(t, z, Str("="))}} :
                                     HasAt(t, y, Str("INPUT."))}}}}

NestedMatch(t) ==
    {x[2] : x \in Leftmost(UNION {{<<p, nm>> : nm \in NestedMatchAt(t, p)} : p \in 1..Len(t)})}

RECURSIVE BracketKeys(_, _)
\* [...trimmed.matchAll(/\["([^"]+)"\]/g)].map(m => m[1]), scanning from position i
BracketKeys(t, i) ==
    IF i > Len(t) THEN <<>>
    ELSE LET b == RunEndNot(t, i + 2, {"\""})
         IN  IF HasAt(t, i, Str("[\"")) /\ b > i + 2 /\ HasAt(t, b, Str("\"]"))
             THEN <<SubSeq(t, i + 2, b - 1)>> \o BracketKeys(t, b + 2)
             ELSE BracketKeys(t, i + 1)

\* (==|!=|>|<) at position i: the alternatives in order
CondOpAt(t, i) ==
    IF HasAt(t, i, Str("==")) THEN Str("==")
    ELSE IF HasAt(t, i, Str("!=")) THEN Str("!=")
    ELSE IF HasAt(t, i, Str(">")) THEN Str(">")
    ELSE IF HasAt(t, i, Str("<")) THEN Str("<")
    ELSE <<>>

\* the line terminators, which . does not match
LineTerminators == {"\n", "\r"}

\*  if INPUT\.(\w+) (==|!=|>|<) "([^"]+)" else (.+) tried at position q
CondTailAt(t, q) ==
    LET f == q + 10
        g == RunEnd(t, f, WordChars)
        op == CondOpAt(t, g + 1)
        v == g + 1 + Len(op) + 2
        w == RunEndNot(t, v, {"\""})
        z == w + 7
        end == RunEndNot(t, z, LineTerminators)
    IN  IF HasAt(t, q, Str(" if INPUT.")) /\ g > f /\ HasAt(t, g, Str(" ")) /\ op # <<>>
           /\ HasAt(t, g + 1 + Len(op), Str(" ") \o Str("\"")) /\ w > v
           /\ HasAt(t, w, Str("\" else ")) /\ end > z
        THEN {[condField |-> SubSeq(t, f, g - 1), condOp |-> op, condValue |-> SubSeq(t, v, w - 1),
               elseRaw |-> SubSeq(t, z, end - 1)]}
        ELSE {}

\* /OUTPUT\["([^"]+)"\]\s*=\s*(.+) if INPUT\.(\w+) (==|!=|>|<) "([^"]+)" else (.+)/ tried at
\* position p.  The then-part (.+) starts after the blanks that follow "=" (a tail cannot
\* start on the first non-blank, so giving blanks back never helps) and, being greedy,
\* ends at the last " if INPUT." from which the rest matches.
CondMatchAt(t, p) ==
    UNION {{[target |-> ta[1], thenRaw |-> SubSeq(t, ta[2], x[1] - 1),
             condField |-> x[2].condField, condOp |-> x[2].condOp,
             condValue |-> x[2].condValue, elseRaw |-> x[2].elseRaw] :
                x \in Rightmost(UNION {{<<q, tail>> : tail \in CondTailAt(t, q)} :
                                          q \in {j \in (ta[2] + 1)..Len(t) :
                                                    \A k \in ta[2]..(j - 1) : t[k] \notin LineTerminators}})} :
           ta \in TargetAssignAt(t, p)}

CondMatch(t) ==
    {x[2] : x \in Leftmost(UNION {{<<p, cm>> : cm \in CondMatchAt(t, p)} : p \in 1..Len(t)})}

RECURSIVE RemoveAll(_, _)
\* s.replace(/INPUT\./g, '') for pat = "INPUT."
RemoveAll(s, pat) ==
    IF s = <<>> THEN <<>>
    ELSE IF StartsWith(s, pat) THEN RemoveAll(From(s, Len(pat) + 1), pat)
    ELSE <<Head(s)>> \o RemoveAll(Tail(s), pat)

\* cleanVal: v.replace(/^\["']|["']$/g, '').replace(/INPUT\./g, '').trim()
\* the first alternative is the four characters [ " ' ] at the start of v
CleanVal(v) ==
    LET v1 == IF StartsWith(v, Str("[\"']")) THEN From(v, 5) ELSE v
        v2 == IF v1 # <<>> /\ v1[Len(v1)] \in {"\"", "'"} THEN SubSeq(v1, 1, Len(v1) - 1) ELSE v1
    IN  Trim(RemoveAll(v2, Str("INPUT.")))

\* the mapping objects the parser pushes
CallMapping(u, name) ==
    [id |-> Uid(u), moduleName |-> name, type |-> Str("module_call"), isNew |-> False]

DirectMapping(u, target, source, transform) ==
    [id |-> Uid(u), target |-> target, source |-> source, transform |-> transform,
     transformation |-> Str("direct"), type |-> Str("field"), isNew |-> False]

ConditionalMapping(u, c) ==
    [id |-> Uid(u), target |-> c.target, condField |-> c.condField, condOp |-> c.condOp,
     condValue |-> c.condValue, thenValue |-> CleanVal(c.thenRaw), elseValue |-> CleanVal(c.elseRaw),
     transformation |-> Str("conditional"), type |-> Str("field"), isNew |-> False]

\* the parser's state before the first line: no module, no current module (cur = 0);
\* uid counts the calls of uid(), u of them made before this parse
ParseStart(u) == [modules |-> <<>>, cur |-> 0, totalMappings |-> 0, uid |-> u]

\* currentModule.mappings.unshift(m) in place of push(m)
PushMappingFirst(st, m) ==
    [st EXCEPT !.modules[st.cur].mappings = <<m>> \o @, !.totalMappings = @ + 1, !.uid = @ + 1]

\* currentModule.mappings.push(m); totalMappings++, for a mapping m built with uid()
PushMapping(st, m) ==
    [st EXCEPT !.modules[st.cur].mappings = Append(@, m), !.totalMappings = @ + 1, !.uid = @ + 1]

\* modules.push(currentModule = { id: uid(), name, mappings: [] })
OpenModule(st, name) ==
    [st EXCEPT !.modules = Append(@, [id |-> Uid(st.uid), name |-> name, mappings |-> <<>>]),
               !.cur = Len(st.modules) + 1, !.uid = @ + 1]

\* the loop body with a nested assignment taken the way the single-level rule reads a
\* line: the first bracketed key, the first segment of the source, no transform
ParseMappingFirstKey(st, trimmed, simpleMatch, nestedMatch, condMatch) ==
    IF simpleMatch # {}
    THEN PushMapping(st, CHOOSE m \in {DirectMapping(st.uid, sm.target, sm.source, sm.transform) :
                                          sm \in simpleMatch} : TRUE)
    ELSE IF nestedMatch # {}
    THEN PushMapping(st, CHOOSE m \in {DirectMapping(st.uid, BracketKeys(trimmed, 1)[1],
                                                      Split(nm.source, ".")[1], Null) :
                                          nm \in nestedMatch} : TRUE)
    ELSE IF condMatch # {}
    THEN PushMapping(st, CHOOSE m \in {ConditionalMapping(st.uid, cm) : cm \in condMatch} : TRUE)
    ELSE st

\* the three mapping patterns of the loop body, tried in the order simple, nested,
\* conditional, for the matches simpleMatch, nestedMatch and condMatch of the trimmed line
ParseMapping(st, trimmed, simpleMatch, nestedMatch, condMatch) ==
    IF simpleMatch # {}
    THEN PushMapping(st, CHOOSE m \in {DirectMapping(st.uid, sm.target, sm.source, sm.transform) :
                                          sm \in simpleMatch} : TRUE)
    ELSE IF nestedMatch # {}
    THEN PushMapping(st, CHOOSE m \in {DirectMapping(st.uid, Join(BracketKeys(trimmed, 1), Str(".")),
                                                      Join(Split(nm.source, "."), Str(".")),
                                                      nm.transform) : nm \in nestedMatch} : TRUE)
    ELSE IF condMatch # {}
    THEN PushMapping(st, CHOOSE m \in {ConditionalMapping(st.uid, cm) : cm \in condMatch} : TRUE)
    ELSE st

\* the body of lines.forEach for one line; st.cur is the index of currentModule in modules
ParseLine(st, line) ==
    LET trimmed == Trim(line)
    IN  IF StartsWith(trimmed, Str("def transform(INPUT):")) THEN OpenModule(st, Str("main"))
        ELSE IF ModuleDefMatch(trimmed) # {}
        THEN OpenModule(st, CHOOSE n \in ModuleDefMatch(trimmed) : TRUE)
        ELSE IF StartsWith(trimmed, Str("def ")) /\ ~DefExempt(trimmed) THEN [st EXCEPT !.cur = 0]
        ELSE IF st.cur = 0 THEN st
        ELSE IF ModuleCallMatch(trimmed) # {}
        THEN PushMapping(st, CallMapping(st.uid, CHOOSE n \in ModuleCallMatch(trimmed) : TRUE))
        ELSE ParseMapping(st, trimmed, SimpleMatch(trimmed), NestedMatch(trimmed), CondMatch(trimmed))

\* what parseTemplate returns for the parser's state after the last line:
\* { modules: modules.length > 0 ? modules : null, totalMappings }, and the count of the
\* calls of uid() so far
ParseResult(end) ==
    [modules |-> IF Len(end.modules) > 0 THEN Some(end.modules) ELSE None,
     totalMappings |-> end.totalMappings, uid |-> end.uid]

\* parseTemplate(pythonCode), u calls of uid() having been made before it
ParseTemplate(pythonCode, u) ==
    LET lines == Split(pythonCode, "\n")
        st[i \in 0..Len(lines)] == IF i = 0 THEN ParseStart(u) ELSE ParseLine(st[i - 1], lines[i])
    IN  ParseResult(st[Len(lines)])

(***************************************************************************)
(* calculateChanges                                                        *)
(***************************************************************************)
\* the key under which a mapping of module mod is flattened
FlatKey(mod, m) ==
    IF Get(m, "type") = Str("module_call")
    THEN mod.name \o Str(":call_") \o ToStr(Get(m, "moduleName"))
    ELSE mod.name \o Str(":") \o ToStr(Get(m, "target"))

\* { module: mod.name, ...m }
FlatValue(mod, m) == Spread([module |-> mod.name], m)

\* flat[key] = value: a known key keeps its place in Object.keys, a new one goes last
FlatPut(flat, key, value) ==
    IF \E i \in 1..Len(flat) : flat[i].key = key
    THEN [i \in 1..Len(flat) |-> IF flat[i].key = key THEN [key |-> key, value |-> value] ELSE flat[i]]
    ELSE Append(flat, [key |-> key, value |-> value])

\* the <<module, mapping>> pairs visited by mods.forEach(mod => mod.mappings.forEach(...))
Visited(mods) ==
    LET all == Concat([i \in 1..Len(mods) |->
                          [j \in 1..Len(mods[i].mappings) |-> <<mods[i], mods[i].mappings[j]>>]])
    IN  SelectSeq(all, LAMBDA x : ~IsHole(x[2]))

\* currentFlat / originalFlat, as the sequence of its entries in Object.keys order
Flatten(mods) ==
    LET v == Visited(mods)
        flat[i \in 0..Len(v)] ==
            IF i = 0 THEN <<>> ELSE FlatPut(flat[i - 1], FlatKey(v[i][1], v[i][2]), FlatValue(v[i][1], v[i][2]))
    IN  flat[Len(v)]

\* flat[key], None when the key is absent
FlatGet(flat, key) ==
    LET hits == {i \in 1..Len(flat) : flat[i].key = key}
    IN  IF hits = {} THEN None ELSE Some(flat[CHOOSE i \in hits : TRUE].value)

\* Differs that looks at the source alone
DiffersBySource(curr, orig) == Get(curr, "source") # Get(orig, "source")

\* the attributes compared with !==
Differs(curr, orig) ==
    \/ Get(curr, "source") # Get(orig, "source")
    \/ Get(curr, "transformation") # Get(orig, "transformation")
    \/ Get(curr, "transform") # Get(orig, "transform")
    \/ Get(curr, "moduleName") # Get(orig, "moduleName")

NoChanges == [added |-> <<>>, removed |-> <<>>, modified |-> <<>>, unchanged |-> <<>>]

\* the values of a sequence of flat entries
ValuesOf(entries) == [i \in 1..Len(entries) |-> entries[i].value]

\* calculateChanges that takes every mapping for added, with or without a snapshot
CalculateChangesAllAdded(original, mods) ==
    [added |-> ValuesOf(Flatten(mods)), removed |-> <<>>, modified |-> <<>>, unchanged |-> <<>>]

\* calculateChanges() for originalModules (None: null) and modules
CalculateChanges(original, mods) ==
    IF original = None THEN NoChanges
    ELSE LET currentFlat == Flatten(mods)
             originalFlat == Flatten(original[1])
             orig(e) == FlatGet(originalFlat, e.key)
             added == SelectSeq(currentFlat, LAMBDA e : orig(e) = None)
             modified == SelectSeq(currentFlat, LAMBDA e : orig(e) # None /\ Differs(e.value, orig(e)[1]))
             unchanged == SelectSeq(currentFlat, LAMBDA e : orig(e) # None /\ ~Differs(e.value, orig(e)[1]))
             removed == SelectSeq(originalFlat, LAMBDA e : FlatGet(currentFlat, e.key) = None)
         IN  [added |-> ValuesOf(added),
              modified |-> [i \in 1..Len(modified) |->
                               [current |-> modified[i].value, original |-> orig(modified[i])[1]]],
              unchanged |-> ValuesOf(unchanged),
              removed |-> ValuesOf(removed)]

(***************************************************************************)
(* extractFields over a parsed JSON value.  A JSON value is a record with  *)
(* its kind: an object holds its entries in key order, a string its text.  *)
(***************************************************************************)
JObject(entries) == [kind |-> "object", entries |-> entries]
JString(s) == [kind |-> "string", str |-> s]
JNumber == [kind |-> "number"]
JArray == [kind |-> "array"]
JNull == [kind |-> "null"]
JEntry(k, v) == [key |-> k, value |-> v]

\* typeof v
TypeOf(v) ==
    IF v.kind \in {"object", "array", "null"} THEN Str("object")
    ELSE IF v.kind = "string" THEN Str("string") ELSE Str("number")

\* !!v for a parsed JSON value held in a state variable (None: never set)
SchemaTruthy(s) ==
    s # None /\ s[1].kind # "null" /\ (s[1].kind = "string" => s[1].str # <<>>)

RECURSIVE Traverse(_, _)
\* traverse(current, path): the fields pushed, in order
Traverse(current, path) ==
    IF current.kind # "object" THEN <<>>
    ELSE Concat([i \in 1..Len(current.entries) |->
            LET key == current.entries[i].key
                value == current.entries[i].value
                newPath == IF path # <<>> THEN path \o Str(".") \o key ELSE key
                depth == Len(Split(newPath, ".")) - 1
            IN  IF TypeOf(value) = Str("object") /\ value.kind # "array"
                THEN <<[path |-> newPath, type |-> Str("object"), depth |-> depth]>> \o Traverse(value, newPath)
                ELSE <<[path |-> newPath,
                        type |-> IF value.kind = "string" THEN value.str ELSE TypeOf(value),
                        depth |-> depth]>>])

\* extractFields(obj)
ExtractFields(obj) == Traverse(obj, <<>>)

(***************************************************************************)
(* autoMap                                                                 *)
(***************************************************************************)
LowerOf ==
    [c \in {"A","B","C","D","E","F","G","H","I","J","K","L","M","N","O","P","Q","R","S","T","U","V","W","X","Y","Z"} |->
        CASE c = "A" -> "a" [] c = "B" -> "b" [] c = "C" -> "c" [] c = "D" -> "d" [] c = "E" -> "e"
          [] c = "F" -> "f" [] c = "G" -> "g" [] c = "H" -> "h" [] c = "I" -> "i" [] c = "J" -> "j"
          [] c = "K" -> "k" [] c = "L" -> "l" [] c = "M" -> "m" [] c = "N" -> "n" [] c = "O" -> "o"
          [] c = "P" -> "p" [] c = "Q" -> "q" [] c = "R" -> "r" [] c = "S" -> "s" [] c = "T" -> "t"
          [] c = "U" -> "u" [] c = "V" -> "v" [] c = "W" -> "w" [] c = "X" -> "x" [] c = "Y" -> "y"
          [] c = "Z" -> "z"]

\* path.toLowerCase().replace(/_/g, "")
Normalize(path) ==
    LET lower == [i \in 1..Len(path) |-> IF path[i] \in DOMAIN LowerOf THEN LowerOf[path[i]] ELSE path[i]]
    IN  SelectSeq(lower, LAMBDA c : c # "_")

\* AutoMappings with the source of the last input field that matches
AutoMappingsLastMatch(u, inFields, outFields) ==
    LET hit(o) == {k \in 1..Len(inFields) : Normalize(inFields[k].path) = Normalize(o.path)}
        mapped == SelectSeq(outFields, LAMBDA o : hit(o) # {})
    IN  [i \in 1..Len(mapped) |->
            [id |-> Uid(u + i - 1), target |-> mapped[i].path, source |-> inFields[Max(hit(mapped[i]))].path,
             transformation |-> Str("direct"), type |-> Str("field"), isNew |-> False]]

\* the mappings autoMap builds from the two field lists
AutoMappings(u, inFields, outFields) ==
    LET hit(o) == {k \in 1..Len(inFields) : Normalize(inFields[k].path) = Normalize(o.path)}
        mapped == SelectSeq(outFields, LAMBDA o : hit(o) # {})
    IN  [i \in 1..Len(mapped) |->
            [id |-> Uid(u + i - 1), target |-> mapped[i].path, source |-> inFields[Min(hit(mapped[i]))].path,
             transformation |-> Str("direct"), type |-> Str("field"), isNew |-> False]]

(***************************************************************************)
(* The inputs of the bounded exploration.                                  *)
(***************************************************************************)
\* the operations of one session: the files uploaded and the edits of step 2
MaxOps == 4
\* the calls of uid() of one session
MaxUid == 12
\* the longest mapping list drawn for the main module of a generated Model
MaxMain == 3
\* the largest number of helper modules drawn for a generated Model
MaxHelpers == 2

\* loadSample's two schemas
SampleInput ==
    JObject(<< JEntry(Str("customer"),
                      JObject(<< JEntry(Str("firstName"), JString(Str("string"))),
                                 JEntry(Str("lastName"), JString(Str("string"))),
                                 JEntry(Str("email"), JString(Str("string"))) >>)),
               JEntry(Str("loan"),
                      JObject(<< JEntry(Str("amount"), JString(Str("number"))),
                                 JEntry(Str("type"), JString(Str("string"))) >>)) >>)

SampleOutput ==
    JObject(<< JEntry(Str("CUSTOMER"),
                      JObject(<< JEntry(Str("FIRST_NAME"), JString(Str("string"))),
                                 JEntry(Str("LAST_NAME"), JString(Str("string"))) >>)),
               JEntry(Str("LOAN"),
                      JObject(<< JEntry(Str("AMOUNT"), JString(Str("number"))),
                                 JEntry(Str("TYPE"), JString(Str("string"))) >>)) >>)

\* A .json file is given by what JSON.parse makes of its text: None when it throws.
\* The files offered: one that is no JSON, {"s": "string", "c": {"f": "string"}}, and
\* {"a_b": "string", "ab": "string"}, two paths that autoMap takes for the same.
SchemaFiles ==
    { [json |-> None],
      [json |-> Some(JObject(<< JEntry(Str("s"), JString(Str("string"))),
                                JEntry(Str("c"), JObject(<< JEntry(Str("f"), JString(Str("string"))) >>)) >>))],
      [json |-> Some(JObject(<< JEntry(Str("a_b"), JString(Str("string"))),
                                JEntry(Str("ab"), JString(Str("string"))) >>))] }

\* the name addModule gives the n-th module
ModuleName(n) == Str("module_") \o ToDigits(n)

\* mappings in the shape the editor and the parser build them
FieldMapping(u, target, source) ==
    [id |-> Uid(u), target |-> target, source |-> source, transformation |-> Str("direct"),
     type |-> Str("field"), isNew |-> False]

Conditional(u, target, then, els) ==
    [id |-> Uid(u), target |-> target, condField |-> Str("s"), condOp |-> Str("=="),
     condValue |-> Str("v"), thenValue |-> then, elseValue |-> els,
     transformation |-> Str("conditional"), type |-> Str("field"), isNew |-> False]

\* A .py file is its text.  The files offered: a template with a helper module and a main
\* module, the template of a Model without mappings, a template with a helper module
\* alone that calls itself, and a text without any definition.
TemplateFiles ==
    { GenerateCode(<< [id |-> Uid(0), name |-> ModuleName(1),
                       mappings |-> << DirectMapping(0, Str("a.b"), Str("c.f"), Null) >>],
                      [id |-> Uid(0), name |-> Str("main"),
                       mappings |-> << CallMapping(0, ModuleName(1)),
                                       DirectMapping(0, Str("x"), Str("s"), Null) >>] >>),
      GenerateCode(<< [id |-> Uid(0), name |-> Str("main"), mappings |-> <<>>] >>),
      GenerateCode(<< [id |-> Uid(0), name |-> Str("x"),
                       mappings |-> << DirectMapping(0, Str("x"), Str("s"), Str("upper")),
                                       CallMapping(0, Str("x")) >>] >>),
      Str("print(1)") }

\* parseTemplate of each file, for each count of the calls of uid() made before it
TemplateParse == [t \in TemplateFiles |-> [u \in 0..MaxUid |-> ParseTemplate(t, u)]]

\* what a user types or picks in a row of the mapping table
TypedTargets == { Str("x"), Str("a.b") }
PickedKinds == { Str("conditional") }
TypedNames == { Str("main"), Str("x"), ModuleName(1) }

\* The mappings the main module of a generated Model is drawn from: a direct mapping as
\* the editor builds it and two as the parser builds them, a mapping whose target was
\* never typed, a conditional, a module call, and a mapping of a kind that is no key
\* of TRANSFORMATION_PLUGINS (no handler builds one; generateCode guards against it).
MainPool ==
    { FieldMapping(0, Str("x"), Str("s")),
      DirectMapping(0, Str("x"), Str("c.f"), Null),
      DirectMapping(0, Str("a.b.c"), Str("s"), Str("format_ssn")),
      FieldMapping(0, <<>>, Str("s")),
      Conditional(0, Str("y"), Str("v"), Str("w")),
      CallMapping(0, ModuleName(1)),
      [FieldMapping(0, Str("y"), Str("s")) EXCEPT !.transformation = Str("custom")] }

\* the mapping lists a helper module of a generated Model is drawn from
HelperPool ==
    { <<>>,
      << FieldMapping(0, <<>>, Str("s")) >>,
      << DirectMapping(0, Str("a.b"), Str("c.f"), Str("upper")), FieldMapping(0, Str("a.b"), Str("s")) >> }

\* the Model mods with the identifiers uid() gives from its u-th call on, a hundred to
\* a module
WithIds(mods, u) ==
    [i \in 1..Len(mods) |->
        [id |-> Uid(u + 100 * (i - 1)), name |-> mods[i].name,
         mappings |-> [j \in 1..Len(mods[i].mappings) |->
                          [mods[i].mappings[j] EXCEPT !.id = Uid(u + 100 * (i - 1) + j)]]]]

\* the Model of the helper modules module_1, module_2, ... with the mapping lists helpers
\* and the module "main" with the mapping list main after the first k of them
PoolModel(main, helpers, k) ==
    WithIds([i \in 1..(Len(helpers) + 1) |->
                IF i = k + 1 THEN [id |-> Uid(0), name |-> Str("main"), mappings |-> main]
                ELSE [id |-> Uid(0), name |-> ModuleName(IF i <= k THEN i ELSE i - 1),
                      mappings |-> helpers[IF i <= k THEN i ELSE i - 1]]], 0)

\* Rows of the kinds that parseTemplate has no pattern for, as the plugin editors fill
\* them: with no field set (generate falls back on its defaults) and with fields set
GenerateOnlyPool ==
    { Spread(FieldMapping(0, Str("x"), <<>>), u) :
        u \in { [transformation |-> Str("for_loop")],
                [transformation |-> Str("for_loop"), loopVar |-> Str("i"), iterable |-> Str("INPUT.items")],
                [transformation |-> Str("if_block"), condition |-> Str("INPUT.s == \"v\"")],
                [transformation |-> Str("if_block"), ifType |-> Str("elif")],
                [transformation |-> Str("if_block"), ifType |-> Str("else")],
                [transformation |-> Str("break")],
                [transformation |-> Str("continue")],
                [transformation |-> Str("datetime_parse"), target |-> Str("a.b"), source |-> Str("INPUT.d")],
                [transformation |-> Str("datetime_format"), dateVar |-> Str("d")],
                [transformation |-> Str("datetime_add"), source |-> Str("d"), amount |-> Str("5")],
                [transformation |-> Str("decimal"), decimalOp |-> Str("create"), source |-> Str("INPUT.s")],
                [transformation |-> Str("decimal"), decimalOp |-> Str("add")],
                [transformation |-> Str("decimal"), decimalOp |-> Str("round"), source |-> Str("c.f")],
                [transformation |-> Str("regex")],
                [transformation |-> Str("regex"), regexOp |-> Str("replace"), source |-> Str("c.f")] } }

\* The Models generateCode is applied to: every mapping list of "main" up to MaxMain
\* mappings, followed by one helper module; every list of
\* up to MaxHelpers helper modules, around a "main" of a call and an assignment; and
\* an assignment between two rows of GenerateOnlyPool in "main", with a helper module of
\* the first of them and a nested assignment.
ModelPool ==
    {PoolModel(main, << << DirectMapping(0, Str("a.b"), Str("c.f"), Str("upper")),
                           FieldMapping(0, Str("a.b"), Str("s")) >> >>, 0) :
        main \in UNION {[1..n -> MainPool] : n \in 0..MaxMain}}
    \cup
    {PoolModel(<< CallMapping(0, ModuleName(1)), FieldMapping(0, Str("x"), Str("s")) >>, x[1], x[2]) :
        x \in {y \in (UNION {[1..n -> HelperPool] : n \in 0..MaxHelpers}) \X (0..MaxHelpers) :
                   y[2] <= Len(y[1])}}
    \cup
    {PoolModel(<< g[1], FieldMapping(0, Str("x"), Str("s")), g[2] >>,
               << << g[1], DirectMapping(0, Str("a.b"), Str("c.f"), Str("upper")) >> >>, 0) :
        g \in GenerateOnlyPool \X GenerateOnlyPool}

(***************************************************************************)
(* The state of the GrizzlyMapper component (lines 991-1002), the file     *)
(* reads in flight, and the stages of the generate - parse - compare       *)
(* pipeline.                                                               *)
(***************************************************************************)
VARIABLES
    step,             \* 1: files, 2: mapping table, 3: export
    inputSchema,      \* None (null) or Some(parsed JSON)
    outputSchema,
    inputFields,
    outputFields,
    modules,          \* the Model: a sequence of [id, name, mappings]
    activeModule,     \* 0-based index into modules
    expandedRow,      \* None (null) or Some(0-based row)
    sidebarState,     \* [isOpen, mode, rowIdx, field]
    templateLoaded,
    templateInfo,
    originalModules,  \* None (null) or Some(the Model as it was loaded)
    reads,            \* the FileReader loads in flight, in the order they were started
    lastRead,         \* history: Some(what the load that completed in the last step was), or None
    nextUid,          \* the calls of uid() so far
    ops,              \* the uploads and edits so far
    pc,               \* the stage of the pipeline; "editor" in the editor
    text,             \* generateCode(modules)
    parsed,           \* parseTemplate(text); its locals while pc = "parsing"
    changes,          \* calculateChanges of the parsed Model against modules
    text2             \* the second text: of the parsed Model, or of modules again

editorVars ==
    <<step, inputSchema, outputSchema, inputFields, outputFields, modules, activeModule, expandedRow,
      sidebarState, templateLoaded, templateInfo, originalModules, reads, lastRead, nextUid, ops>>

pipelineVars == <<pc, text, parsed, changes, text2>>

vars == <<editorVars, pipelineVars>>

\* useState(...) of every cell but modules
InitialCells ==
    /\ step = 1
    /\ inputSchema = None
    /\ outputSchema = None
    /\ inputFields = <<>>
    /\ outputFields = <<>>
    /\ activeModule = 0
    /\ expandedRow = None
    /\ sidebarState = [isOpen |-> FALSE, mode |-> "source", rowIdx |-> None, field |-> None]
    /\ templateLoaded = FALSE
    /\ templateInfo = <<>>
    /\ originalModules = None
    /\ reads = <<>>
    /\ lastRead = None
    /\ ops = 0

NoPipeline ==
    /\ text = <<>>
    /\ parsed = None
    /\ changes = None
    /\ text2 = <<>>

Init ==
    /\ InitialCells
    /\ modules = << [id |-> Uid(0), name |-> Str("main"), mappings |-> <<>>] >>
    /\ nextUid = 1
    /\ pc = "editor"
    /\ NoPipeline

(***************************************************************************)
(* Rendering.  A render that throws unmounts the component: no handler     *)
(* runs after it.                                                          *)
(***************************************************************************)
\* modules[activeModule]?.mappings || []
Mappings ==
    IF activeModule + 1 \in 1..Len(modules) THEN modules[activeModule + 1].mappings ELSE <<>>

\* the rows of the mapping table (displayMappings): the 0-based indexes of the field
\* mappings and of the module calls
Rows ==
    {i \in 0..(Len(Mappings) - 1) :
        Get(Mappings[i + 1], "type") \in {Str("field"), Str("module_call")}}

FieldRows == {i \in Rows : Get(Mappings[i + 1], "type") = Str("field")}
CallRows == {i \in Rows : Get(Mappings[i + 1], "type") = Str("module_call")}

\* The render throws a TypeError when displayMappings meets an undefined element, when
\* the open sidebar's used-list or the export page reads one in any module.
RenderThrows ==
    \/ \E j \in 1..Len(Mappings) : IsUndefinedElement(Mappings[j])
    \/ (step = 3 \/ (step = 2 /\ sidebarState.isOpen)) /\ ReadsThrow(modules)

Mounted == pc = "editor" /\ ~RenderThrows

\* an editing operation of the mapping table is at hand
CanEdit == Mounted /\ step = 2 /\ ops < MaxOps

\* what a handler other than reader.onload leaves behind: isOp for an upload or an edit,
\* uids the calls of uid() it made
Handled(isOp, uids) ==
    /\ lastRead' = None
    /\ ops' = IF isOp THEN ops + 1 ELSE ops
    /\ nextUid' = nextUid + uids
    /\ UNCHANGED pipelineVars

(***************************************************************************)
(* Step 1: files                                                           *)
(***************************************************************************)
\* handleFile(type, file): reader.readAsText(file) starts a load
HandleFile ==
    /\ Mounted /\ step = 1 /\ ops < MaxOps
    /\ \E type \in {"input", "output", "template"} :
         \E file \in (IF type = "template" THEN {[text |-> t] : t \in TemplateFiles} ELSE SchemaFiles) :
            reads' = Append(reads, [type |-> type, file |-> file])
    /\ Handled(TRUE, 0)
    /\ UNCHANGED <<step, inputSchema, outputSchema, inputFields, outputFields, modules, activeModule,
                   expandedRow, sidebarState, templateLoaded, templateInfo, originalModules>>

\* a copy that leaves out the keys whose value is null as well
JsonCopyWithoutNulls(mods) ==
    [i \in 1..Len(mods) |->
        [mods[i] EXCEPT !.mappings =
            [j \in 1..Len(@) |->
                [k \in {f \in DOMAIN @[j] : @[j][f] \notin {Undefined, Null}} |-> @[j][k]]]]]

\* JSON.parse(JSON.stringify(mods)): a copy without the keys whose value is undefined
JsonCopy(mods) ==
    [i \in 1..Len(mods) |->
        [mods[i] EXCEPT !.mappings =
            [j \in 1..Len(@) |->
                [k \in {f \in DOMAIN @[j] : @[j][f] # Undefined} |-> @[j][k]]]]]

\* LoadTemplate that answers the sentinel by going back to the Model of a fresh session
LoadTemplateResetting(result) ==
    /\ result.uid <= MaxUid
    /\ nextUid' = result.uid
    /\ lastRead' = Some([type |-> "template", threw |-> FALSE, sentinel |-> result.modules = None,
                         totalMappings |-> result.totalMappings])
    /\ modules' = IF result.modules # None THEN result.modules[1]
                  ELSE << [id |-> Uid(0), name |-> Str("main"), mappings |-> <<>>] >>
    /\ originalModules' = IF result.modules # None THEN Some(JsonCopy(result.modules[1])) ELSE None
    /\ activeModule' = 0
    /\ templateLoaded' = (result.modules # None)
    /\ templateInfo' = <<>>

\* LoadTemplate that keeps the snapshot of an earlier load
LoadTemplateKeepingSnapshot(result) ==
    /\ result.uid <= MaxUid
    /\ nextUid' = result.uid
    /\ lastRead' = Some([type |-> "template", threw |-> FALSE, sentinel |-> result.modules = None,
                         totalMappings |-> result.totalMappings])
    /\ IF result.modules # None
       THEN /\ modules' = result.modules[1]
            /\ originalModules' = IF originalModules = None THEN Some(JsonCopy(result.modules[1]))
                                  ELSE originalModules
            /\ activeModule' = 0
            /\ templateLoaded' = TRUE
            /\ templateInfo' = ToDigits(result.totalMappings) \o Str(" mappings, ")
                                   \o ToDigits(Len(result.modules[1])) \o Str(" modules")
       ELSE UNCHANGED <<modules, originalModules, activeModule, templateLoaded, templateInfo>>

\* the template branch of reader.onload for the result of parseTemplate
LoadTemplate(result) ==
    /\ result.uid <= MaxUid
    /\ nextUid' = result.uid
    /\ lastRead' = Some([type |-> "template", threw |-> FALSE, sentinel |-> result.modules = None,
                         totalMappings |-> result.totalMappings])
    /\ IF result.modules # None
       THEN /\ modules' = result.modules[1]
            /\ originalModules' = Some(JsonCopy(result.modules[1]))
            /\ activeModule' = 0
            /\ templateLoaded' = TRUE
            /\ templateInfo' = ToDigits(result.totalMappings) \o Str(" mappings, ")
                                   \o ToDigits(Len(result.modules[1])) \o Str(" modules")
       ELSE UNCHANGED <<modules, originalModules, activeModule, templateLoaded, templateInfo>>

\* the schema branches of reader.onload: JSON.parse throws (caught), or the schema and
\* its fields are set
LoadSchema(type, file) ==
    IF file.json = None
    THEN UNCHANGED <<inputSchema, inputFields, outputSchema, outputFields>>
    ELSE IF type = "input"
    THEN /\ inputSchema' = file.json
         /\ inputFields' = ExtractFields(file.json[1])
         /\ UNCHANGED <<outputSchema, outputFields>>
    ELSE /\ outputSchema' = file.json
         /\ outputFields' = ExtractFields(file.json[1])
         /\ UNCHANGED <<inputSchema, inputFields>>

\* reader.onload of one of the loads in flight
ReaderOnload ==
    /\ Mounted
    /\ \E i \in 1..Len(reads) :
        /\ reads' = SubSeq(reads, 1, i - 1) \o SubSeq(reads, i + 1, Len(reads))
        /\ IF reads[i].type = "template"
           THEN /\ LoadTemplate(TemplateParse[reads[i].file.text][nextUid])
                /\ UNCHANGED <<inputSchema, inputFields, outputSchema, outputFields>>
           ELSE /\ LoadSchema(reads[i].type, reads[i].file)
                /\ lastRead' = Some([type |-> reads[i].type, threw |-> reads[i].file.json = None,
                                     sentinel |-> FALSE, totalMappings |-> 0])
                /\ UNCHANGED <<modules, originalModules, activeModule, templateLoaded, templateInfo, nextUid>>
    /\ UNCHANGED <<step, expandedRow, sidebarState, ops>>
    /\ UNCHANGED pipelineVars

LoadSample ==
    /\ Mounted /\ step = 1
    /\ inputSchema' = Some(SampleInput)
    /\ outputSchema' = Some(SampleOutput)
    /\ inputFields' = ExtractFields(SampleInput)
    /\ outputFields' = ExtractFields(SampleOutput)
    /\ Handled(FALSE, 0)
    /\ UNCHANGED <<step, modules, activeModule, expandedRow, sidebarState, templateLoaded,
                   templateInfo, originalModules, reads>>

\* the buttons Next, Back, Export and Back: setStep(n)
SetStep ==
    /\ Mounted
    /\ \E n \in 1..3 :
        /\ \/ step = 1 /\ n = 2 /\ SchemaTruthy(inputSchema) /\ SchemaTruthy(outputSchema)
           \/ step = 2 /\ n \in {1, 3}
           \/ step = 3 /\ n = 2
        /\ step' = n
    /\ Handled(FALSE, 0)
    /\ UNCHANGED <<inputSchema, outputSchema, inputFields, outputFields, modules, activeModule,
                   expandedRow, sidebarState, templateLoaded, templateInfo, originalModules, reads>>

(***************************************************************************)
(* Step 2: modules                                                         *)
(***************************************************************************)
\* what the handlers of step 2 leave alone besides the cells they set
KeepFiles ==
    UNCHANGED <<step, inputSchema, outputSchema, inputFields, outputFields, templateLoaded,
                templateInfo, originalModules, reads>>

AddModule ==
    /\ CanEdit /\ nextUid < MaxUid
    /\ modules' = Append(modules, [id |-> Uid(nextUid), name |-> ModuleName(Len(modules)), mappings |-> <<>>])
    /\ activeModule' = Len(modules)
    /\ Handled(TRUE, 1) /\ KeepFiles
    /\ UNCHANGED <<expandedRow, sidebarState>>

\* newModules of updateModuleName(idx, name): the name of the module, and the calls to it
\* in the other modules
Renamed(idx, name) ==
    [i \in 1..Len(modules) |->
        IF i = idx + 1 THEN [modules[i] EXCEPT !.name = name]
        ELSE [modules[i] EXCEPT !.mappings =
                [j \in 1..Len(@) |->
                    IF /\ ~IsHole(@[j])
                       /\ Get(@[j], "type") = Str("module_call")
                       /\ Get(@[j], "moduleName") = modules[idx + 1].name
                    THEN Spread(@[j], [moduleName |-> name])
                    ELSE @[j]]]]

\* updateModuleName(idx, name), from the name input of a module that is not "main"
UpdateModuleName ==
    /\ CanEdit
    /\ \E idx \in 0..(Len(modules) - 1) : \E name \in TypedNames :
        /\ modules[idx + 1].name # Str("main")
        /\ modules' = IF modules[idx + 1].name = name THEN modules ELSE Renamed(idx, name)
    /\ Handled(TRUE, 0) /\ KeepFiles
    /\ UNCHANGED <<activeModule, expandedRow, sidebarState>>

\* deleteModule(idx) without its return for a Model of one module
DeleteModuleUnguarded ==
    /\ CanEdit
    /\ \E idx \in 0..(Len(modules) - 1) :
        /\ modules[idx + 1].name # Str("main")
        /\ LET newModules == FilterOut(modules, idx)
           IN  /\ modules' = newModules
               /\ activeModule' = IF activeModule >= Len(newModules) THEN Len(newModules) - 1
                                  ELSE activeModule
    /\ Handled(TRUE, 0) /\ KeepFiles
    /\ UNCHANGED <<expandedRow, sidebarState>>

\* deleteModule(idx), from the button shown for a module that is not "main" when there
\* is more than one module
DeleteModule ==
    /\ CanEdit
    /\ \E idx \in 0..(Len(modules) - 1) :
        /\ Len(modules) > 1 /\ modules[idx + 1].name # Str("main")
        /\ LET newModules == FilterOut(modules, idx)
           IN  /\ modules' = newModules
               /\ activeModule' = IF activeModule >= Len(newModules) THEN Len(newModules) - 1
                                  ELSE activeModule
    /\ Handled(TRUE, 0) /\ KeepFiles
    /\ UNCHANGED <<expandedRow, sidebarState>>

\* the module tabs: setActiveModule(idx)
SetActiveModule ==
    /\ CanEdit
    /\ \E idx \in 0..(Len(modules) - 1) : idx # activeModule /\ activeModule' = idx
    /\ Handled(TRUE, 0) /\ KeepFiles
    /\ UNCHANGED <<modules, expandedRow, sidebarState>>

(***************************************************************************)
(* Step 2: mappings                                                        *)
(***************************************************************************)
\* an object without keys: what spreading undefined gives
EmptyObject == <<>>

\* newModules of updateModuleMappings(moduleIdx, newMappings)
UpdateModuleMappings(moduleIdx, newMappings) ==
    LET old == IF moduleIdx + 1 \in 1..Len(modules) THEN modules[moduleIdx + 1] ELSE EmptyObject
    IN  ArraySet(modules, moduleIdx, Spread(old, [mappings |-> newMappings]))

\* newModules of updateMapping(idx, updates)
UpdateMapping(idx, updates) ==
    LET newMappings == ArrayCopy(Mappings)
        old == IF idx + 1 \in 1..Len(newMappings) /\ ~IsUndefinedElement(newMappings[idx + 1])
               THEN newMappings[idx + 1] ELSE EmptyObject
    IN  UpdateModuleMappings(activeModule,
            ArraySet(newMappings, idx, Spread(Spread(old, updates), [isNew |-> False])))

AddMapping ==
    /\ CanEdit /\ nextUid < MaxUid
    /\ LET newMappings == Append(ArrayCopy(Mappings),
                                 [id |-> Uid(nextUid), target |-> <<>>, source |-> <<>>,
                                  transformation |-> Str("direct"), type |-> Str("field"), isNew |-> True])
       IN  /\ modules' = UpdateModuleMappings(activeModule, newMappings)
           /\ expandedRow' = Some(Len(newMappings) - 1)
    /\ Handled(TRUE, 1) /\ KeepFiles
    /\ UNCHANGED <<activeModule, sidebarState>>

AddModuleCall ==
    /\ CanEdit /\ nextUid < MaxUid
    /\ modules' = UpdateModuleMappings(activeModule,
                     Append(ArrayCopy(Mappings),
                            [id |-> Uid(nextUid), moduleName |-> <<>>, type |-> Str("module_call"),
                             isNew |-> True]))
    /\ Handled(TRUE, 1) /\ KeepFiles
    /\ UNCHANGED <<activeModule, expandedRow, sidebarState>>

\* the updates the editor of the row's plugin sends when the row is expanded
EditorUpdates(m) ==
    IF Get(m, "transformation") = Str("direct")
    THEN { [source |-> Str("s")], [transform |-> Str("upper")], [transform |-> Null] }
    ELSE IF Get(m, "transformation") = Str("conditional")
    THEN { [thenValue |-> Str("c.f")], [condValue |-> Str("v")] }
    ELSE {}

\* the updates a row of the table sends: the target typed, the kind picked, and the
\* plugin editor's
RowUpdates(idx) ==
    {[target |-> t] : t \in TypedTargets}
        \cup {[transformation |-> k] : k \in PickedKinds}
        \cup (IF expandedRow = Some(idx) /\ HasPlugin(Mappings[idx + 1])
              THEN EditorUpdates(Mappings[idx + 1]) ELSE {})

\* updateMapping(realIdx, updates) from a field row
ChangeRow ==
    /\ CanEdit
    /\ \E idx \in FieldRows : \E updates \in RowUpdates(idx) :
        modules' = UpdateMapping(idx, updates)
    /\ Handled(TRUE, 0) /\ KeepFiles
    /\ UNCHANGED <<activeModule, expandedRow, sidebarState>>

\* deleteMapping(realIdx) from a row
DeleteMapping ==
    /\ CanEdit
    /\ \E idx \in Rows : modules' = UpdateModuleMappings(activeModule, FilterOut(Mappings, idx))
    /\ Handled(TRUE, 0) /\ KeepFiles
    /\ UNCHANGED <<activeModule, expandedRow, sidebarState>>

\* the chevron of a field row: setExpandedRow(expandedRow === realIdx ? null : realIdx)
ToggleRow ==
    /\ CanEdit
    /\ \E idx \in FieldRows : expandedRow' = IF expandedRow = Some(idx) THEN None ELSE Some(idx)
    /\ Handled(TRUE, 0) /\ KeepFiles
    /\ UNCHANGED <<modules, activeModule, sidebarState>>

\* autoMap that adds its mappings to those of the active module
AutoMapMerging ==
    /\ CanEdit
    /\ LET newMappings == AutoMappings(nextUid, inputFields, outputFields)
       IN  /\ nextUid + Len(newMappings) <= MaxUid
           /\ modules' = UpdateModuleMappings(activeModule, ArrayCopy(Mappings) \o newMappings)
           /\ Handled(TRUE, Len(newMappings))
    /\ KeepFiles
    /\ UNCHANGED <<activeModule, expandedRow, sidebarState>>

\* autoMap()
AutoMap ==
    /\ CanEdit
    /\ LET newMappings == AutoMappings(nextUid, inputFields, outputFields)
       IN  /\ nextUid + Len(newMappings) <= MaxUid
           /\ modules' = UpdateModuleMappings(activeModule, newMappings)
           /\ Handled(TRUE, Len(newMappings))
    /\ KeepFiles
    /\ UNCHANGED <<activeModule, expandedRow, sidebarState>>

(***************************************************************************)
(* Step 2: the sidebar                                                     *)
(***************************************************************************)
\* the <<mode, field>> with which the expanded row's plugin editor opens the sidebar
EditorSidebars(m) ==
    IF Get(m, "transformation") \in {Str("direct"), Str("for_loop"), Str("datetime_parse"),
                                     Str("decimal"), Str("regex")}
    THEN { <<"source", None>> }
    ELSE IF Get(m, "transformation") = Str("conditional")
    THEN { <<"source", Some("condField")>>, <<"source", Some("thenValue")>>,
           <<"source", Some("elseValue")>> }
    ELSE {}

\* the <<mode, rowIdx, field>> of the calls of openSidebar the table offers
SidebarOpenings ==
    {<<"target", idx, None>> : idx \in FieldRows}
        \cup {<<"module", idx, None>> : idx \in CallRows}
        \cup UNION {{<<e[1], idx, e[2]>> : e \in EditorSidebars(Mappings[idx + 1])} :
                        idx \in {i \in FieldRows : expandedRow = Some(i) /\ HasPlugin(Mappings[i + 1])}}

\* openSidebar(mode, rowIdx, field)
OpenSidebar ==
    /\ CanEdit
    /\ \E o \in SidebarOpenings :
        sidebarState' = [isOpen |-> TRUE, mode |-> o[1], rowIdx |-> Some(o[2]), field |-> o[3]]
    /\ Handled(TRUE, 0) /\ KeepFiles
    /\ UNCHANGED <<modules, activeModule, expandedRow>>

\* the sidebar's close button: setSidebarState({ ...sidebarState, isOpen: false })
CloseSidebar ==
    /\ CanEdit /\ sidebarState.isOpen
    /\ sidebarState' = [sidebarState EXCEPT !.isOpen = FALSE]
    /\ Handled(TRUE, 0) /\ KeepFiles
    /\ UNCHANGED <<modules, activeModule, expandedRow>>

\* the paths the field sidebar offers: the fields that are no objects
OfferedPaths ==
    LET fields == IF sidebarState.mode = "target" THEN outputFields ELSE inputFields
    IN  {fields[i].path : i \in {k \in 1..Len(fields) : fields[k].type # Str("object")}}

\* handleSidebarSelect(path)
HandleSidebarSelect ==
    /\ CanEdit /\ sidebarState.isOpen /\ sidebarState.mode # "module"
    /\ \E path \in OfferedPaths :
        modules' =
            IF sidebarState.rowIdx = None THEN modules
            ELSE IF sidebarState.field # None
            THEN UpdateMapping(sidebarState.rowIdx[1], [k \in {sidebarState.field[1]} |-> path])
            ELSE IF sidebarState.mode = "target"
            THEN UpdateMapping(sidebarState.rowIdx[1], [target |-> path])
            ELSE UpdateMapping(sidebarState.rowIdx[1], [source |-> path])
    /\ sidebarState' = [sidebarState EXCEPT !.isOpen = FALSE]
    /\ Handled(TRUE, 0) /\ KeepFiles
    /\ UNCHANGED <<activeModule, expandedRow>>

\* availableModules of ModuleBrowserSidebar: the names offered
AvailableModules ==
    {modules[i].name : i \in {k \in 1..Len(modules) : k - 1 # activeModule /\ modules[k].name # Str("main")}}

\* onSelect of ModuleBrowserSidebar
SelectModule ==
    /\ CanEdit /\ sidebarState.isOpen /\ sidebarState.mode = "module"
    /\ \E moduleName \in AvailableModules :
        modules' = IF sidebarState.rowIdx = None THEN modules
                   ELSE UpdateMapping(sidebarState.rowIdx[1], [moduleName |-> moduleName])
    /\ sidebarState' = [sidebarState EXCEPT !.isOpen = FALSE]
    /\ Handled(TRUE, 0) /\ KeepFiles
    /\ UNCHANGED <<activeModule, expandedRow>>

Next ==
    \/ HandleFile
    \/ ReaderOnload
    \/ LoadSample
    \/ SetStep
    \/ AddModule
    \/ UpdateModuleName
    \/ DeleteModule
    \/ SetActiveModule
    \/ AddMapping
    \/ AddModuleCall
    \/ ChangeRow
    \/ DeleteMapping
    \/ ToggleRow
    \/ AutoMap
    \/ OpenSidebar
    \/ CloseSidebar
    \/ HandleSidebarSelect
    \/ SelectModule

Spec == Init /\ [][Next]_vars

(***************************************************************************)
(* The pipeline generateCode - parseTemplate - calculateChanges -          *)
(* generateCode on a Model of ModelPool, and generateCode called again on  *)
(* the same Model and on the Model with other identifiers.                 *)
(***************************************************************************)
otherCells ==
    <<step, inputSchema, outputSchema, inputFields, outputFields, activeModule, expandedRow,
      sidebarState, templateLoaded, templateInfo, originalModules, reads, lastRead, ops>>

PipelineInit ==
    /\ InitialCells
    /\ modules \in ModelPool
    /\ nextUid = 100 * Len(modules)
    /\ pc = "model"
    /\ NoPipeline

\* text = generateCode()
Generate ==
    /\ pc = "model"
    /\ text' = GenerateCode(modules)
    /\ pc' = "generated"
    /\ UNCHANGED <<otherCells, modules, nextUid, parsed, changes, text2>>

\* parsed = parseTemplate(text)
Parse ==
    /\ pc = "generated"
    /\ \E result \in {ParseTemplate(text, nextUid)} :
        /\ parsed' = Some(result)
        /\ nextUid' = result.uid
    /\ pc' = "parsed"
    /\ UNCHANGED <<otherCells, modules, text, changes, text2>>

\* changes = calculateChanges() with the Model as the original and the parsed Model as
\* the current one
Diff ==
    /\ pc = "parsed" /\ parsed[1].modules # None
    /\ changes' = Some(CalculateChanges(Some(modules), parsed[1].modules[1]))
    /\ pc' = "diffed"
    /\ UNCHANGED <<otherCells, modules, nextUid, text, parsed, text2>>

\* text2 = generateCode() of the parsed Model
Reemit ==
    /\ pc = "diffed"
    /\ text2' = GenerateCode(parsed[1].modules[1])
    /\ pc' = "reemitted"
    /\ UNCHANGED <<otherCells, modules, nextUid, text, parsed, changes>>

\* the same Model built in another session: every identifier is another token
Reidentify ==
    /\ pc = "generated"
    /\ modules' = WithIds(modules, nextUid)
    /\ nextUid' = nextUid + 100 * Len(modules)
    /\ pc' = "reidentified"
    /\ UNCHANGED <<otherCells, text, parsed, changes, text2>>

\* text2 = generateCode(), called a second time
Regenerate ==
    /\ pc \in {"generated", "reidentified"}
    /\ text2' = GenerateCode(modules)
    /\ pc' = "regenerated"
    /\ UNCHANGED <<otherCells, modules, nextUid, text, parsed, changes>>

PipelineNext ==
    \/ Generate
    \/ Parse
    \/ Diff
    \/ Reemit
    \/ Reidentify
    \/ Regenerate

PipelineSpec == PipelineInit /\ [][PipelineNext]_vars

(***************************************************************************)
(* calculateChanges on a Model and a snapshot: the Model is drawn from     *)
(* DiffPool, the snapshot is the one a template load left, or none.        *)
(***************************************************************************)
\* the longest mapping list drawn for the main module of a compared Model
MaxDiff == 2

\* the mappings the main module of a compared Model is drawn from
DiffMappings ==
    { FieldMapping(0, Str("x"), Str("a")),
      FieldMapping(0, Str("x"), Str("b")),
      FieldMapping(0, Str("y"), Str("c")),
      DirectMapping(0, Str("x"), Str("a"), Str("upper")),
      Conditional(0, Str("x"), Str("v"), Str("w")),
      CallMapping(0, ModuleName(1)),
      CallMapping(0, ModuleName(2)),
      FieldMapping(0, Str("call_module_1"), Str("a")) }

\* the Models compared: a main module alone, or with the module module_1 after it
DiffPool ==
    {PoolModel(x[1], x[2], 0) :
        x \in (UNION {[1..n -> DiffMappings] : n \in 0..MaxDiff})
                 \X {<<>>, << << FieldMapping(0, Str("x"), Str("a")) >> >>}}

\* the snapshots: the Models of four templates
DiffOriginals ==
    { PoolModel(<< FieldMapping(0, Str("x"), Str("a")) >>, <<>>, 0),
      PoolModel(<< FieldMapping(0, Str("x"), Str("a")), CallMapping(0, ModuleName(1)) >>,
                << << FieldMapping(0, Str("x"), Str("b")) >> >>, 1),
      PoolModel(<<>>, <<>>, 0),
      PoolModel(<< FieldMapping(0, Str("call_module_1"), Str("a")), FieldMapping(0, Str("y"), Str("c")) >>,
                <<>>, 0) }

DiffInit ==
    /\ InitialCells
    /\ modules \in DiffPool
    /\ nextUid = 100 * Len(modules)
    /\ pc = "model"
    /\ NoPipeline

\* setOriginalModules(...) of a template load, the Model having been edited since
Snapshot ==
    /\ pc = "model"
    /\ \E original \in DiffOriginals : originalModules' = Some(original)
    /\ templateLoaded' = TRUE
    /\ pc' = "loaded"
    /\ UNCHANGED <<step, inputSchema, outputSchema, inputFields, outputFields, modules, activeModule,
                   expandedRow, sidebarState, templateInfo, reads, lastRead, nextUid, ops,
                   text, parsed, changes, text2>>

\* changes = originalModules ? calculateChanges() : { added: [], ... } of the export page
Compare ==
    /\ pc \in {"model", "loaded"}
    /\ changes' = Some(CalculateChanges(originalModules, modules))
    /\ pc' = "compared"
    /\ UNCHANGED <<otherCells, modules, nextUid, text, parsed, text2>>

DiffNext ==
    \/ Snapshot
    \/ Compare

DiffSpec == DiffInit /\ [][DiffNext]_vars

(***************************************************************************)
(* parseTemplate line by line: the callback of lines.forEach is one step.  *)
(* While pc is "parsing", parsed holds the locals of parseTemplate:        *)
(* modules, the index cur of currentModule in modules (0: null),           *)
(* totalMappings, and idx, the number of lines the callback has seen.      *)
(***************************************************************************)
\* the most lines a parsed text has
MaxLines == 3

\* the lines the parsed texts are made of
ParserLines ==
    { Str("def transform(INPUT):"),
      Str("def map_x(INPUT, OUTPUT):"),
      Str("def helper(a):"),
      Str("def transform(INPUT, OUTPUT):"),
      Str("    OUTPUT[\"x\"] = INPUT.s"),
      Str("    OUTPUT[\"a\"][\"b\"] = INPUT.c.f.upper()"),
      Str("    OUTPUT[\"y\"] = \"v\" if INPUT.s == \"v\" else \"w\""),
      Str("    map_x(INPUT, OUTPUT)") }

ParserInit ==
    /\ InitialCells
    /\ modules = << [id |-> Uid(0), name |-> Str("main"), mappings |-> <<>>] >>
    /\ nextUid = 1
    /\ pc = "parsing"
    /\ text \in {Join(ls, Str("\n")) : ls \in UNION {[1..n -> ParserLines] : n \in 0..MaxLines}}
    /\ parsed = Some(Spread(ParseStart(1), [idx |-> 0]))
    /\ changes = None
    /\ text2 = <<>>

\* the callback of lines.forEach for the next line
ParseStep ==
    /\ pc = "parsing"
    /\ \E lines \in {Split(text, "\n")} :
        /\ parsed[1].idx < Len(lines)
        /\ parsed' = Some([ParseLine(parsed[1], lines[parsed[1].idx + 1]) EXCEPT !.idx = @ + 1])
    /\ UNCHANGED <<otherCells, modules, nextUid, pc, text, changes, text2>>

\* return { modules: modules.length > 0 ? modules : null, totalMappings }
ParseReturn ==
    /\ pc = "parsing"
    /\ parsed[1].idx = Len(Split(text, "\n"))
    /\ parsed' = Some(ParseResult(parsed[1]))
    /\ pc' = "parsed"
    /\ UNCHANGED <<otherCells, modules, nextUid, text, changes, text2>>

ParserNext ==
    \/ ParseStep
    \/ ParseReturn

ParserSpec == ParserInit /\ [][ParserNext]_vars

(***************************************************************************)
(* The name input of a module tab: every keystroke calls updateModuleName  *)
(* with the value of the input after it.  The specification starts in the  *)
(* editor at step 2 after the upload of a template of the helper modules   *)
(* module_1 and module_2 and a "main" that calls module_1, and the sample  *)
(* schemas.                                                                *)
(***************************************************************************)
RenameInit ==
    \E result \in {ParseTemplate(GenerateCode(PoolModel(<< CallMapping(0, ModuleName(1)) >>,
                                                          << << FieldMapping(0, Str("x"), Str("s")) >>,
                                                             << FieldMapping(0, Str("x"), Str("s")) >> >>, 0)), 1)} :
        /\ step = 2
        /\ inputSchema = Some(SampleInput)
        /\ outputSchema = Some(SampleOutput)
        /\ inputFields = ExtractFields(SampleInput)
        /\ outputFields = ExtractFields(SampleOutput)
        /\ modules = result.modules[1]
        /\ originalModules = Some(JsonCopy(result.modules[1]))
        /\ activeModule = 0
        /\ expandedRow = None
        /\ sidebarState = [isOpen |-> FALSE, mode |-> "source", rowIdx |-> None, field |-> None]
        /\ templateLoaded = TRUE
        /\ templateInfo = ToDigits(result.totalMappings) \o Str(" mappings, ")
                              \o ToDigits(Len(result.modules[1])) \o Str(" modules")
        /\ reads = <<>>
        /\ lastRead = None
        /\ nextUid = result.uid
        /\ ops = 1
        /\ pc = "editor"
        /\ NoPipeline

\* onChange of the name input of a module that is not "main": updateModuleName(idx,
\* e.target.value), the value being the name with a character typed at its end or with
\* its last character deleted
TypeModuleName ==
    /\ CanEdit
    /\ \E idx \in 0..(Len(modules) - 1) :
        \E name \in {modules[idx + 1].name \o <<c>> : c \in {"1", "2", "_"}}
                    \cup {SubSeq(modules[idx + 1].name, 1, Len(modules[idx + 1].name) - 1)} :
            /\ modules[idx + 1].name # Str("main")
            /\ modules[idx + 1].name # name
            /\ modules' = Renamed(idx, name)
    /\ Handled(TRUE, 0) /\ KeepFiles
    /\ UNCHANGED <<activeModule, expandedRow, sidebarState>>

RenameSpec == RenameInit /\ [][TypeModuleName]_vars

(***************************************************************************)
(* Properties                                                              *)
(***************************************************************************)
\* the mappings of a Model are direct, conditional and module-call mappings, the field
\* mappings with a non-empty target
RoundTrippable(mods) ==
    \A i \in 1..Len(mods) : \A j \in 1..Len(mods[i].mappings) :
        \E m \in {mods[i].mappings[j]} :
            \/ Get(m, "type") = Str("module_call")
            \/ /\ Get(m, "type") = Str("field")
               /\ Get(m, "transformation") \in {Str("direct"), Str("conditional")}
               /\ Truthy(Get(m, "target"))

\* C1: for a Model of direct, conditional and module-call mappings with non-empty
\* targets, the diff of parseTemplate(generateCode(M)) against M has nothing added,
\* nothing removed and nothing modified.
C1_RoundTrip ==
    (pc = "diffed" /\ RoundTrippable(modules)) =>
        /\ changes[1].added = <<>>
        /\ changes[1].removed = <<>>
        /\ changes[1].modified = <<>>

\* C2: for a Model of the round-trippable subset, generateCode of
\* parseTemplate(generateCode(M)) is the text generateCode(M).
C2_Reemission == (pc = "reemitted" /\ RoundTrippable(modules)) => text2 = text

\* C3: generateCode called again gives the same text, on the same Model and on the
\* Model whose identifiers are other tokens.
C3_Deterministic == pc = "regenerated" => text2 = text

C3_Witness ==
    /\ pc = "regenerated" /\ text2 = text
    /\ modules[1].id # Uid(0)
    /\ \E i \in 1..Len(modules) : \E j \in 1..Len(modules[i].mappings) :
          Get(modules[i].mappings[j], "type") = Str("module_call")

\* C4: a template read that recovers no mapping reports the sentinel and leaves the
\* Model as it was.
C4_SentinelKeepsModel ==
    [][(lastRead' # None /\ lastRead'[1].type = "template" /\ lastRead'[1].totalMappings = 0)
          => (lastRead'[1].sentinel /\ modules' = modules)]_vars

\* C5: a read that fails (JSON.parse throws, or parseTemplate returns the sentinel)
\* leaves modules, originalModules, activeModule, the schemas, the field lists and
\* templateLoaded as they were.
C5_FailedReadKeepsState ==
    [][(lastRead' # None /\ (lastRead'[1].threw \/ lastRead'[1].sentinel))
          => UNCHANGED <<modules, originalModules, activeModule, inputSchema, outputSchema,
                         inputFields, outputFields, templateLoaded>>]_vars

C5_Witness ==
    /\ lastRead # None /\ lastRead[1].sentinel
    /\ templateLoaded /\ Len(modules) = 2 /\ inputSchema # None

\* the lines of a text that open a definition
DefLines(txt) == SelectSeq(Split(txt, "\n"), LAMBDA l : StartsWith(l, Str("def ")))

\* the modules generateCode emits, in the order it emits them: the helper modules that
\* have mappings, then the first module named "main"
Emitted(mods) ==
    SelectSeq(mods, LAMBDA mod : mod.name # Str("main") /\ Len(mod.mappings) > 0)
    \o SelectSeq([i \in 1..Len(mods) |->
                    IF \E k \in 1..(i - 1) : mods[k].name = Str("main")
                    THEN [mods[i] EXCEPT !.name = <<>>] ELSE mods[i]],
                 LAMBDA mod : mod.name = Str("main"))

\* C6: the definitions of the helper modules come in the order of the module list,
\* and def transform(INPUT): comes after all of them, wherever "main" is in the list.
C6_EmissionOrder ==
    pc = "generated" =>
        \E e \in {Emitted(modules)} :
            DefLines(text) =
                [i \in 1..Len(e) |->
                    IF e[i].name = Str("main") THEN Str("def transform(INPUT):")
                    ELSE Str("def map_") \o e[i].name \o Str("(INPUT, OUTPUT):")]

C6_Witness ==
    /\ pc = "generated" /\ modules[1].name = Str("main")
    /\ \E d \in {DefLines(text)} : Len(d) = 3 /\ d[3] = Str("def transform(INPUT):")

\* the text has one line def transform(INPUT):, the line OUTPUT = {} two lines below
\* it, and return OUTPUT as its last line
EntryPoint(lines) ==
    /\ Cardinality({i \in 1..Len(lines) : lines[i] = Str("def transform(INPUT):")}) = 1
    /\ \E i \in 1..(Len(lines) - 2) :
          /\ lines[i] = Str("def transform(INPUT):")
          /\ lines[i + 2] = Str("    OUTPUT = {}")
    /\ lines[Len(lines)] = Str("    return OUTPUT")

\* C7: for every Model the editor reaches, the text of generateCode has exactly one
\* def transform(INPUT):, with OUTPUT = {} before its statements and return OUTPUT
\* after them.
C7_OneEntryPoint ==
    (pc = "editor" /\ ~ReadsThrow(modules)) => EntryPoint(Split(GenerateCode(modules), "\n"))

\* a field mapping with a non-empty target and a kind of the registry
Contributes(m) ==
    /\ Get(m, "type") # Str("module_call")
    /\ Truthy(Get(m, "target"))
    /\ Get(m, "transformation") \in PluginIds

\* the assignment lines of a text
AssignmentLines(txt) == SelectSeq(Split(txt, "\n"), LAMBDA l : StartsWith(l, Str("    OUTPUT[")))

\* the Model without the field mappings that do not contribute, taken out of "main" and
\* of every helper module that keeps a mapping (a module without mappings is not
\* emitted at all: that is the rule for modules)
Kept(mods) ==
    [i \in 1..Len(mods) |->
        IF mods[i].name = Str("main")
           \/ \E j \in 1..Len(mods[i].mappings) :
                 Get(mods[i].mappings[j], "type") = Str("module_call") \/ Contributes(mods[i].mappings[j])
        THEN [mods[i] EXCEPT !.mappings =
                 SelectSeq(@, LAMBDA m : Get(m, "type") = Str("module_call") \/ Contributes(m))]
        ELSE mods[i]]

\* the number of field mappings of the modules mods that contribute
RECURSIVE Contributing(_)
Contributing(mods) ==
    IF mods = <<>> THEN 0
    ELSE Cardinality({j \in 1..Len(Head(mods).mappings) : Contributes(Head(mods).mappings[j])})
         + Contributing(Tail(mods))

RECURSIVE BracketChain(_)
\* ["k1"]["k2"]... for the segments of a target
BracketChain(segments) ==
    IF segments = <<>> THEN <<>>
    ELSE Str("[\"") \o Head(segments) \o Str("\"]") \o BracketChain(Tail(segments))

\* the statement a mapping contributes: the call of its module, or its assignment
Statement(m) ==
    IF Get(m, "type") = Str("module_call")
    THEN << Str("    map_") \o ToStr(Get(m, "moduleName")) \o Str("(INPUT, OUTPUT)") >>
    ELSE IF Contributes(m)
    THEN << Str("    OUTPUT") \o BracketChain(Split(Get(m, "target"), ".")) \o Str(" = ")
                \o PluginGenerate(m) >>
    ELSE <<>>

\* C9: the assignment of a field mapping whose target has k segments is OUTPUT, the k
\* segments as bracketed quoted keys in their order, " = ", and the registry's
\* generate(mapping).
C9_NestedTarget ==
    pc = "generated" =>
        \E lines \in {Split(text, "\n")} : \E e \in {Emitted(modules)} :
            \A i \in 1..Len(e) : \A j \in 1..Len(e[i].mappings) :
                \E m \in {e[i].mappings[j]} :
                    Contributes(m) => \E k \in 1..Len(lines) : <<lines[k]>> = Statement(m)

C9_Witness ==
    /\ pc = "generated"
    /\ \E i \in 1..Len(modules) : \E j \in 1..Len(modules[i].mappings) :
          Get(modules[i].mappings[j], "target") = Str("a.b.c")
    /\ \E lines \in {Split(text, "\n")} : \E k \in 1..Len(lines) :
          lines[k] = Str("    OUTPUT[\"a\"][\"b\"][\"c\"] = format_ssn(INPUT.s)")

\* the statements of a text: its assignments and its module calls
StatementLines(txt) ==
    SelectSeq(Split(txt, "\n"),
              LAMBDA l : StartsWith(l, Str("    OUTPUT[")) \/ StartsWith(l, Str("    map_")))

\* C10: the statements of each emitted module are those of its mappings in list
\* order, one for each mapping, two mappings with one target giving two assignments.
C10_ListOrder ==
    pc = "generated" =>
        \E e \in {Emitted(modules)} :
            StatementLines(text) =
                Concat([i \in 1..Len(e) |->
                           Concat([j \in 1..Len(e[i].mappings) |-> Statement(e[i].mappings[j])])])

C10_Witness ==
    /\ pc = "generated"
    /\ \E d \in {StatementLines(text)} :
          /\ Len(d) = 4
          /\ d[3] = Str("    OUTPUT[\"x\"] = INPUT.s")
          /\ d[4] = Str("    OUTPUT[\"x\"] = INPUT.c.f")

\* the key of a mapping of module mod: the module's name with the target of a field
\* mapping, or with call_ and the callee of a module call
KeyOf(mod, m) ==
    << mod.name,
       IF Get(m, "type") = Str("module_call")
       THEN Str("call_") \o ToStr(Get(m, "moduleName")) ELSE ToStr(Get(m, "target")) >>

\* the keys of a Model
KeysOf(mods) ==
    UNION {{KeyOf(mods[i], mods[i].mappings[j]) : j \in 1..Len(mods[i].mappings)} : i \in 1..Len(mods)}

\* the mapping a Model holds under a key with its module's name: the last one with the key
HeldAt(mods, key) ==
    LET at == {p \in UNION {{<<i, j>> : j \in 1..Len(mods[i].mappings)} : i \in 1..Len(mods)} :
                  KeyOf(mods[p[1]], mods[p[1]].mappings[p[2]]) = key}
        last == CHOOSE p \in at : \A q \in at : q[1] < p[1] \/ (q[1] = p[1] /\ q[2] <= p[2])
    IN  Spread([module |-> mods[last[1]].name], mods[last[1]].mappings[last[2]])

\* the attributes the comparison looks at; an attribute a mapping does not have is
\* another value than null or the empty string
Compared(m) == << Get(m, "source"), Get(m, "transformation"), Get(m, "transform"), Get(m, "moduleName") >>

\* the elements of a sequence without repetition
Listed(s, S) == Len(s) = Cardinality(S) /\ {s[i] : i \in 1..Len(s)} = S

C12_NoSnapshot ==
    (pc = "compared" /\ originalModules = None) =>
        changes = Some([added |-> <<>>, removed |-> <<>>, modified |-> <<>>, unchanged |-> <<>>])

C12_Witness ==
    /\ pc = "compared" /\ originalModules = None /\ changes # None
    /\ Len(modules) = 2 /\ Len(modules[1].mappings) = 2 /\ Len(modules[2].mappings) = 1

\* C13: in one module, the key under which a field mapping is flattened is never the key
\* under which a module call is flattened.
C13_NoCollision ==
    \A i \in 1..Len(modules) : \A j, k \in 1..Len(modules[i].mappings) :
        (Get(modules[i].mappings[j], "type") = Str("field")
            /\ Get(modules[i].mappings[k], "type") = Str("module_call"))
        => FlatKey(modules[i], modules[i].mappings[j]) # FlatKey(modules[i], modules[i].mappings[k])

\* the input fields whose path, in lower case and without underscores, is that of path
Counterparts(path) == {k \in 1..Len(inputFields) : Normalize(inputFields[k].path) = Normalize(path)}

\* C14: autoMap leaves in the active module, in the order of the output fields, one
\* direct field mapping for each output field that has a counterpart among the input
\* fields, its source the first counterpart, and nothing for the other output fields.
C14_AutoMapMatching ==
    [][AutoMap =>
          \E r \in {modules'[activeModule + 1].mappings} :
            \E matched \in {SelectSeq(outputFields, LAMBDA o : Counterparts(o.path) # {})} :
              /\ Len(r) = Len(matched)
              /\ \A i \in 1..Len(r) :
                    /\ r[i].target = matched[i].path
                    /\ r[i].transformation = Str("direct") /\ r[i].type = Str("field")
                    /\ \E k \in Counterparts(matched[i].path) :
                          /\ r[i].source = inputFields[k].path
                          /\ \A j \in Counterparts(matched[i].path) : k <= j]_vars

\* after autoMap on the schema whose fields a_b and ab are both counterparts of ab
C14_Witness ==
    /\ Len(inputFields) = 2 /\ Len(outputFields) = 2
    /\ Len(Mappings) = 2
    /\ Get(Mappings[1], "target") = Str("a_b") /\ Get(Mappings[1], "source") = Str("a_b")
    /\ Get(Mappings[2], "target") = Str("ab") /\ Get(Mappings[2], "source") = Str("a_b")

\* C15: autoMap replaces the mapping list of the active module, none of the mappings
\* it held staying, and leaves the other modules, every module name, activeModule and
\* the snapshot as they were.
C15_AutoMapLocal ==
    [][AutoMap =>
          /\ Len(modules') = Len(modules)
          /\ \A i \in 1..Len(modules) :
                /\ modules'[i].name = modules[i].name
                /\ i # activeModule + 1 => modules'[i] = modules[i]
          /\ \A j \in 1..Len(modules'[activeModule + 1].mappings) :
                \A k \in 1..Len(Mappings) : modules'[activeModule + 1].mappings[j] # Mappings[k]
          /\ activeModule' = activeModule
          /\ originalModules' = originalModules]_vars

\* autoMap has run on the first module of a loaded template; the second module and the
\* snapshot are those of the template
C15_Witness ==
    /\ originalModules # None /\ Len(modules) = 2 /\ activeModule = 0
    /\ Len(modules[1].mappings) = 6
    /\ Get(modules[1].mappings[1], "target") = Str("CUSTOMER")
    /\ modules[2] = originalModules[1][2]
    /\ modules[1].mappings # originalModules[1][1].mappings

\* C16: no two modules of the Model have the same name.
C16_UniqueNames ==
    \A i, j \in 1..Len(modules) : i # j => Get(modules[i], "name") # Get(modules[j], "name")

\* C17: exactly one module of the Model is named "main".
C17_OneMain == Cardinality({i \in 1..Len(modules) : Get(modules[i], "name") = Str("main")}) = 1

\* C18: every module call with a callee names a module of the Model that is not "main".
C18_CallsValid ==
    \A i \in 1..Len(modules) : \A j \in 1..Len(modules[i].mappings) :
        \E m \in {modules[i].mappings[j]} :
            (Get(m, "type") = Str("module_call") /\ Truthy(Get(m, "moduleName")))
            => /\ Get(m, "moduleName") # Str("main")
               /\ \E k \in 1..Len(modules) : Get(modules[k], "name") = Get(m, "moduleName")

\* C19: the reads in flight complete in any order, between any two other steps; a
\* template read that succeeds takes its read out of those in flight and leaves modules
\* and the snapshot both the parse of that file and activeModule 0; and the snapshot is
\* at all times the whole parse of one file.
C19_AtomicLoad ==
    [][/\ (lastRead' # None /\ lastRead'[1].type = "template" /\ ~lastRead'[1].sentinel) =>
            \E i \in 1..Len(reads) :
                /\ reads[i].type = "template"
                /\ reads' = SubSeq(reads, 1, i - 1) \o SubSeq(reads, i + 1, Len(reads))
                /\ \E result \in {TemplateParse[reads[i].file.text][nextUid]} :
                      /\ result.modules = Some(modules')
                      /\ originalModules' = Some(modules')
                /\ activeModule' = 0
       /\ originalModules' # None =>
            \E t \in TemplateFiles : \E u \in 0..MaxUid : TemplateParse[t][u].modules = originalModules'
      ]_vars

\* a template read has completed at step 2 while another template read is in flight
C19_Witness ==
    /\ lastRead # None /\ lastRead[1].type = "template" /\ ~lastRead[1].sentinel
    /\ step = 2 /\ originalModules = Some(modules) /\ activeModule = 0
    /\ \E i \in 1..Len(reads) : reads[i].type = "template"

\* C20: a line that starts with def and is neither def transform(INPUT): nor
\* def map_<name>(INPUT, OUTPUT): leaves the parser without a current module.
C20_ModulePointer ==
    [][(pc = "parsing" /\ pc' = "parsing") =>
          \E line \in {Trim(Split(text, "\n")[parsed[1].idx + 1])} :
              (/\ StartsWith(line, Str("def "))
               /\ ~StartsWith(line, Str("def transform(INPUT):"))
               /\ ModuleDefMatch(line) = {})
              => parsed'[1].cur = 0]_vars

\* the attributes of a conditional mapping that the parser is to recover
CondFields(m) ==
    << Get(m, "transformation"), Get(m, "target"), Get(m, "condField"), Get(m, "condOp"),
       Get(m, "condValue"), Get(m, "thenValue"), Get(m, "elseValue") >>

\* C21: for every conditional assignment the generator emits, the parsed Model holds a
\* conditional mapping with the target, condField, condOp, condValue, thenValue and
\* elseValue of the generating mapping.
C21_ConditionalRecovery ==
    pc = "parsed" =>
        \E e \in {Emitted(modules)} :
            \A i \in 1..Len(e) : \A j \in 1..Len(e[i].mappings) :
                \E m \in {e[i].mappings[j]} :
                    (Contributes(m) /\ Get(m, "transformation") = Str("conditional")) =>
                        /\ parsed[1].modules # None
                        /\ \E ms \in {parsed[1].modules[1]} :
                              \E p \in 1..Len(ms) : \E q \in 1..Len(ms[p].mappings) :
                                  CondFields(ms[p].mappings[q]) = CondFields(m)

\* a direct mapping that contributes an assignment with a chain of two or more keys and
\* the source alone or the source with .upper(), .lower() or .capitalize()
NestedDirect(m) ==
    /\ Contributes(m)
    /\ Get(m, "transformation") = Str("direct")
    /\ Includes(Get(m, "target"), ".")
    /\ Get(m, "transform") \in {Undefined, Null, <<>>, Str("upper"), Str("lower"), Str("capitalize")}

\* what the parser is to recover from the assignment of such a mapping
Recovered(m) ==
    << Str("direct"), Get(m, "target"), OrElse(Get(m, "source"), Str("source")),
       OrElse(Get(m, "transform"), Null) >>

\* the positions of the mappings of mods that satisfy Test
Positions(mods, Test(_)) ==
    UNION {{<<i, j>> : j \in {k \in 1..Len(mods[i].mappings) : Test(mods[i].mappings[k])}} :
              i \in 1..Len(mods)}

GenerateOnly(m) ==
    /\ Contributes(m)
    /\ Get(m, "transformation") \notin {Str("direct"), Str("conditional")}

\* the lines of the generate-only rows of mods
GenerateOnlyLines(mods) ==
    UNION {{Statement(mods[i].mappings[j])[1] :
               j \in {k \in 1..Len(mods[i].mappings) : GenerateOnly(mods[i].mappings[k])}} :
              i \in 1..Len(mods)}

\* C23: the lines generated from for_loop, if_block, break, continue, datetime, decimal
\* and regex rows give no mapping, and parseTemplate of the text returns what it returns
\* for the text without those lines.
C23_GenerateOnlyDropped ==
    pc = "parsed" =>
        \E dropped \in {GenerateOnlyLines(modules)} :
            /\ \A l \in dropped :
                  \E st \in {OpenModule(ParseStart(0), Str("main"))} : ParseLine(st, l) = st
            /\ parsed[1] = ParseTemplate(Join(SelectSeq(Split(text, "\n"), LAMBDA l : l \notin dropped),
                                              Str("\n")),
                                         100 * Len(modules))

C23_Witness ==
    /\ pc = "parsed"
    /\ Cardinality(GenerateOnlyLines(modules)) = 2
    /\ \E l \in GenerateOnlyLines(modules) : l = Str("    OUTPUT[\"x\"] = if INPUT.s == \"v\":")
    /\ parsed[1].totalMappings = 2

\* the names the module calls of mods carry
CalledNames(mods) ==
    UNION {{Get(mods[i].mappings[j], "moduleName") :
               j \in {k \in 1..Len(mods[i].mappings) : Get(mods[i].mappings[k], "type") = Str("module_call")}} :
              i \in 1..Len(mods)}

\* C24: after updateModuleName has renamed a module, no module call of the Model
\* carries the old name.
C24_RenameSync ==
    [][UpdateModuleName =>
          \A idx \in 1..Len(modules) :
              modules'[idx].name # modules[idx].name => modules[idx].name \notin CalledNames(modules')]_vars

\* C25: the call that "main" makes to the first module of the uploaded template keeps
\* carrying that module's current name, whatever is typed into the name inputs of the
\* modules.
C25_RenameFrame ==
    \A i \in 1..Len(modules) : \A j \in 1..Len(modules[i].mappings) :
        Get(modules[i].mappings[j], "type") = Str("module_call")
        => Get(modules[i].mappings[j], "moduleName") = modules[1].name

\* C26: the module list is never empty and activeModule is an index into it, and
\* deleteModule acts on a Model of two or more modules only, taking one module out.
C26_ActiveModuleValid ==
    /\ [](Len(modules) >= 1 /\ activeModule \in 0..(Len(modules) - 1))
    /\ [][DeleteModule => (Len(modules) > 1 /\ Len(modules') = Len(modules) - 1)]_vars

C26_Witness ==
    /\ pc = "editor"
    /\ Len(modules) = 2 /\ modules[2].name = ModuleName(2)
    /\ activeModule = 1

\* C27: a selection in the field sidebar or in the module sidebar leaves every mapping
\* list with the entries it had: the same number of them, under the same identifiers.
C27_SelectionUpdatesRow ==
    [][(HandleSidebarSelect \/ SelectModule) =>
          /\ Len(modules') = Len(modules)
          /\ \A i \in 1..Len(modules) :
                /\ Len(modules'[i].mappings) = Len(modules[i].mappings)
                /\ \A j \in 1..Len(modules[i].mappings) :
                      Get(modules'[i].mappings[j], "id") = Get(modules[i].mappings[j], "id")]_vars

\* modules.reduce((sum, mod) => sum + mod.mappings.length, 0)
RECURSIVE MappingCount(_)
MappingCount(mods) ==
    IF mods = <<>> THEN 0 ELSE Len(Head(mods).mappings) + MappingCount(Tail(mods))

\* C28: with a snapshot, added + modified + unchanged count the mappings of the Model
\* and removed + modified + unchanged count the mappings of the snapshot.
C28_DiffAccountsForAll ==
    (pc = "compared" /\ originalModules # None) =>
        /\ Len(changes[1].added) + Len(changes[1].modified) + Len(changes[1].unchanged)
              = MappingCount(modules)
        /\ Len(changes[1].removed) + Len(changes[1].modified) + Len(changes[1].unchanged)
              = MappingCount(originalModules[1])

\* reader.onload has just loaded a template
JustLoaded == lastRead # None /\ lastRead[1].type = "template" /\ ~lastRead[1].sentinel

\* C29: right after a template load the diff of the snapshot against the Model has
\* nothing added, removed or modified, and only a template load changes the snapshot.
C29_FreshLoadNoDiff ==
    /\ [](JustLoaded =>
            \E c \in {CalculateChanges(originalModules, modules)} :
                c.added = <<>> /\ c.removed = <<>> /\ c.modified = <<>>)
    /\ [][originalModules' # originalModules =>
             (lastRead' # None /\ lastRead'[1].type = "template" /\ ~lastRead'[1].sentinel)]_vars

C29_Witness ==
    /\ JustLoaded
    /\ Len(CalculateChanges(originalModules, modules).unchanged) = 3
    /\ ops >= 2

\* C30: totalMappings is the number of mappings in the modules, while parsing and in
\* what parseTemplate returns; a line adds at most one mapping, at the end of a list
\* and none while no module is current.
C30_ParserBookkeeping ==
    /\ [](/\ pc = "parsing" => parsed[1].totalMappings = MappingCount(parsed[1].modules)
          /\ pc = "parsed" =>
                parsed[1].totalMappings =
                    (IF parsed[1].modules = None THEN 0 ELSE MappingCount(parsed[1].modules[1])))
    /\ [][(pc = "parsing" /\ pc' = "parsing") =>
             \E old \in {parsed[1].modules} : \E new \in {parsed'[1].modules} :
                 /\ MappingCount(new) - MappingCount(old) \in {0, 1}
                 /\ parsed[1].cur = 0 => MappingCount(new) = MappingCount(old)
                 /\ Len(new) >= Len(old)
                 /\ \A i \in 1..Len(old) :
                       SubSeq(new[i].mappings, 1, Len(old[i].mappings)) = old[i].mappings]_vars

C30_Witness ==
    /\ pc = "parsed" /\ parsed[1].totalMappings = 2
    /\ parsed[1].modules # None /\ Len(parsed[1].modules[1]) = 1
    /\ Len(parsed[1].modules[1][1].mappings) = 2
    /\ Get(parsed[1].modules[1][1].mappings[1], "type") = Str("field")
    /\ Get(parsed[1].modules[1][1].mappings[2], "type") = Str("module_call")

=============================================================================
